---- MODULE Spec2Model ----
(***************************************************************************)
(* A model of the real-time translation relay: the recogniser client and  *)
(* its dedup gate (deepgram_client.py), the per-language synthesize and   *)
(* publish pipeline (integrated_translation_system.py, cartesia.py,       *)
(* publisher.py), the translate_text task of setup_deepgram_client, and   *)
(* the room connection cache of AudioPublisher.                           *)
(***************************************************************************)
EXTENDS Integers, Sequences, FiniteSets, TLC

(* ------------------------------ bounds -------------------------------- *)
\* how many start_stream and stop_stream calls are made on one client
MaxStarts == 2
MaxStops == 2

\* how many transcripts one listener task emits
MaxEmit == 2

\* how many start() calls are made on the TranslationSystem
MaxSystemStarts == 2

\* how many prompts are built
MaxPrompts == 2

\* the source texts a prompt is built from, as sequences of characters: the
\* empty text, a plain one, and one that repeats the start of a template
SourceTexts == {<<>>, <<"t">>, <<"kr", "t">>}

\* number of recogniser responses a behaviour processes
MaxEvents == 4

\* the transcript texts the recogniser can report ("" is an empty transcript)
Texts == {"a", "b"}

\* number of transcripts TranslationSystem.handle_transcript dispatches
MaxDispatch == 1

\* number of calls of TranslationSystem.handle_transcript
MaxCalls == 2

\* the audio bodies the synthesis service can answer with (<<>> is an empty body)
Bodies == {<<>>, <<1, 2>>}

\* number of translate_text tasks setup_deepgram_client's handle_transcript creates
MaxTranslate == 2

\* number of rtc.Room objects get_room creates
MaxRooms == 3

\* number of tasks that call get_room
NumCallers == 2

\* number of publish_audio calls made on the publisher itself
MaxPublish == 2

\* the texts a translator can answer with, as sequences of characters
Contents == {<<" ">>, <<" ", "x", " ">>}

\* how far the clock runs after the services were loaded, in units of 30 seconds
MaxUptime == 3

\* number of status requests the web service handles at the same time
NumHandlers == 2

\* number of transcripts written to TranslationSession.transcription_buffer
MaxTranscripts == 4

(* ----------------------------- variables ------------------------------ *)
VARIABLES
    \* DeepgramClient
    on_transcript,      \* the callable given as on_transcript: "plain", "ts" or "setup"
    is_running,         \* DeepgramClient.is_running
    ws,                 \* DeepgramClient.ws: "none" or "open"
    stream_pc,          \* where the stream is: "idle", "connecting", "listening", "closing"
    stopped,            \* a stop_stream call has completed and no start followed it
    last_transcript,    \* DeepgramClient.last_transcript
    events,             \* history: what the rounds of the listener loop got from ws.recv
    cb_calls,           \* history: the argument of every on_transcript call
    cb_errors,          \* history: the on_transcript calls that raised
    coroutines,         \* coroutine objects made by calling the async handler, never awaited
    simulation_mode,    \* DeepgramClient.simulation_mode
    sim_pos,            \* _run_simulation: the index in sample_texts of the next text
    environ,            \* os.environ: the names of the settings that are set
    entry,              \* the entry point the process runs: "agent", "system" or "setup"
    launch              \* the start of the process: "none", "refused" or "started"

\* what the start of the process fixes
configVars == <<on_transcript, simulation_mode, environ, entry, launch>>

gateVars == <<configVars, is_running, ws, stream_pc, stopped, last_transcript,
              events, cb_calls, cb_errors, coroutines, sim_pos>>

\* TranslationSystem, CartesiaTTS and the broadcast side of AudioPublisher
VARIABLES
    ts_calls,           \* history: the argument of every handle_transcript call
    ts_last_transcript, \* TranslationSystem.last_transcript
    ts_dispatches,      \* history: handle_transcript calls that passed its own check
    tasks,              \* the translate_and_speak tasks created so far
    tts_api_key,        \* CartesiaTTS.api_key is set
    broadcasts,         \* every AudioBroadcast object get_broadcast created
    active_broadcasts   \* AudioPublisher.active_broadcasts: room name -> index in
                        \* broadcasts, 0 if absent

pipeVars == <<ts_calls, ts_last_transcript, ts_dispatches, tasks, tts_api_key, broadcasts,
              active_broadcasts>>

\* setup_deepgram_client
VARIABLES
    agent_session,      \* the keys agent_session.get finds a translator under
    tt_tasks,           \* the translate_text tasks handle_transcript created, each with
                        \* the history of its achat calls and output callbacks
    late_output         \* history: an output callback was called after stop_stream completed

setupVars == <<agent_session, tt_tasks, late_output>>

\* the room side of AudioPublisher and the calls of its methods
VARIABLES
    rooms,              \* every rtc.Room object get_room created: its room name and state
    active_rooms,       \* AudioPublisher.active_rooms: room name -> index in rooms, 0 if absent
    callers,            \* the tasks that call get_room: where each is and with which room
    publishes,          \* the publish_audio calls made on the publisher itself
    closer              \* the close_all call: where it is in its loop

roomVars == <<rooms, active_rooms, callers, publishes, closer>>

\* the prompts built for the text-generation collaborator
VARIABLES
    llm_prompts         \* history: every prompt built, with who built it and from what

promptVars == <<llm_prompts>>

\* the resources and the calls of one DeepgramClient
VARIABLES
    client,             \* is_running, simulation_mode, ws and audio_stream of the client;
                        \* ws and audio_stream are indexes in sockets and streams, 0 for None
    sockets,            \* every connection websockets.connect returned: "open" or "closed"
    streams,            \* every sd.InputStream made: "created", "started" or "closed"
    listeners,          \* the tasks that run _listen_for_results
    start_calls,        \* the start_stream calls and where each is
    stop_calls          \* the stop_stream calls and where each is

streamVars == <<client, sockets, streams, listeners, start_calls, stop_calls>>

\* TranslationSystem as main() runs it
VARIABLES
    system,             \* is_running and deepgram_client of the TranslationSystem, where
                        \* the start() call of main is, and what the start() calls made
    sys_stops           \* the stop() calls and where each is

systemVars == <<system, sys_stops>>

lifeVars == <<streamVars, systemVars>>

\* the services of main.py and web_only.py, and the TranslationSession of
\* deepgram_integration_example.py
VARIABLES
    now,                \* time.time(), in units of 30 seconds
    service,            \* main.py: its globals, the lifespan, the worker task, the
                        \* heartbeat task and the shutdown_translation_service calls
    web,                \* web_only.py: its globals, the lifespan, the request handlers
                        \* and when the last request to the agent service went out
    translation         \* TranslationSession: transcription_buffer, last_sent of
                        \* process_transcription and the texts given to add_text

appVars == <<now, service, web, translation>>

vars == <<gateVars, pipeVars, setupVars, roomVars, promptVars, lifeVars, appVars>>

(* ------------------------------ services ------------------------------ *)
\* time.time() when the modules are loaded: later than any of the windows below,
\* as a time since the epoch is
StartTime == 2

\* 30 seconds: the sleep of worker_heartbeat and the cache window of check_agent_status
HeartbeatPeriod == 1

CheckWindow == 1

\* 60 seconds: the heartbeat age below which /status reports alive
AliveWindow == 2

\* the sessions main() creates, in the order it creates them
SessionOrder == <<"zh", "kr", "vn">>

FirstSessions(n) ==
    {SessionOrder[i] : i \in 1..n}

Handlers == 1..NumHandlers

\* the globals of main.py after import, no task created yet
InitService ==
    service = [translation_sessions |-> {}, is_translation_running |-> FALSE,
               last_heartbeat |-> StartTime, lifespan |-> "init", worker_task |-> "none",
               exit |-> "", cancel |-> FALSE, cancelled |-> FALSE,
               heartbeat_task |-> "none", wake |-> 0, awaitable |-> FALSE,
               created |-> {}, closed |-> {}, close_errors |-> {},
               calls |-> [c \in {"lifespan", "main"} |-> "idle"],
               gathered |-> [c \in {"lifespan", "main"} |-> {}],
               status |-> <<>>]

\* the globals of web_only.py after import
InitWeb ==
    web = [is_service_running |-> FALSE, last_heartbeat |-> StartTime,
           agent_status |-> [is_running |-> FALSE, last_checked |-> 0],
           lifespan |-> "init",
           handlers |-> [h \in Handlers |->
                            [pc |-> "idle", route |-> "", current_time |-> 0,
                             service_alive |-> FALSE, response |-> <<>>]],
           last_probe |-> 0]

\* TranslationSession.__init__
InitTranslation ==
    translation = [transcription_buffer |-> <<>>, last_sent |-> <<>>, sent |-> <<>>,
                   transcripts |-> 0]

InitApp ==
    /\ now = StartTime
    /\ InitService
    /\ InitWeb
    /\ InitTranslation

(* --------------------------- DeepgramClient --------------------------- *)
\* what one round of the listener loop can get from ws.recv: a result, an error
\* message, text that is not JSON, or an exception other than ConnectionClosed
Responses ==
    [kind : {"result"}, transcript : Texts \cup {""}, is_final : BOOLEAN]
    \cup [kind : {"error", "invalid", "recv_error"}, transcript : {""}, is_final : {FALSE}]

\* a gate that looks at the text only
ShouldForwardChangedOnly(is_final, transcript, last) ==
    transcript # last

\* the condition of the dedup gate
ShouldForward(is_final, transcript, last) ==
    is_final \/ transcript # last

\* the sentences of sample_texts in _run_simulation
SampleTexts == <<"s1", "s2", "s3", "s4", "s5">>

\* DeepgramClient.__init__
\* DeepgramClient.__init__ for the resources: no connection, no audio stream,
\* not running, and no call made yet
InitStream ==
    /\ client = [is_running |-> FALSE, simulation_mode |-> simulation_mode, ws |-> 0,
                 audio_stream |-> 0]
    /\ sockets = <<>>
    /\ streams = <<>>
    /\ listeners = <<>>
    /\ start_calls = <<>>
    /\ stop_calls = <<>>
    /\ system = [is_running |-> FALSE, deepgram_client |-> FALSE, pc |-> "idle",
                 call |-> 0, clients |-> 0, starts |-> 0]
    /\ sys_stops = <<>>

InitClient ==
    /\ InitStream
    /\ is_running = FALSE
    /\ ws = "none"
    /\ stream_pc = "idle"
    /\ stopped = FALSE
    /\ last_transcript = ""
    /\ events = <<>>
    /\ cb_calls = <<>>
    /\ cb_errors = 0
    /\ coroutines = 0
    /\ sim_pos = 1

\* start_stream up to the await of the WebSocket connection; in simulation mode
\* there is no connection and the listener task runs _run_simulation
StartStream ==
    /\ stream_pc = "idle"
    /\ ~is_running
    /\ is_running' = TRUE
    /\ stream_pc' = IF simulation_mode THEN "simulating" ELSE "connecting"
    /\ stopped' = FALSE
    /\ UNCHANGED <<configVars, sim_pos, ws, last_transcript, events, cb_calls, cb_errors,
                   coroutines>>
    /\ UNCHANGED <<pipeVars, setupVars, roomVars, promptVars, lifeVars, appVars>>

\* _connect_websocket returns or raises; on success the listener task starts
ConnectDone(ok) ==
    /\ stream_pc = "connecting"
    /\ IF ok
       THEN /\ ws' = "open"
            /\ stream_pc' = "listening"
            /\ UNCHANGED is_running
       ELSE /\ is_running' = FALSE
            /\ stream_pc' = "idle"
            /\ UNCHANGED ws
    /\ UNCHANGED <<configVars, sim_pos, stopped, last_transcript, events, cb_calls,
                   cb_errors, coroutines>>
    /\ UNCHANGED <<pipeVars, setupVars, roomVars, promptVars, lifeVars, appVars>>

\* stop_stream up to the await of ws.close()
StopStream ==
    /\ stream_pc = "listening"
    /\ is_running
    /\ is_running' = FALSE
    /\ stream_pc' = "closing"
    /\ UNCHANGED <<configVars, sim_pos, ws, stopped, last_transcript, events, cb_calls,
                   cb_errors, coroutines>>
    /\ UNCHANGED <<pipeVars, setupVars, roomVars, promptVars, lifeVars, appVars>>

\* ws.close() returns and stop_stream completes
WsClosed ==
    /\ stream_pc = "closing"
    /\ ws' = "none"
    /\ stream_pc' = "idle"
    /\ stopped' = TRUE
    /\ UNCHANGED <<configVars, sim_pos, is_running, last_transcript, events, cb_calls,
                   cb_errors, coroutines>>
    /\ UNCHANGED <<pipeVars, setupVars, roomVars, promptVars, lifeVars, appVars>>

\* the listener loop may take one more response
Listening ==
    /\ stream_pc = "listening"
    /\ is_running
    /\ ws = "open"
    /\ Len(events) < MaxEvents

\* does this response pass the gate of _process_response
Forwarded(resp) ==
    /\ resp.kind = "result"
    /\ resp.transcript # ""
    /\ ShouldForward(resp.is_final, resp.transcript, last_transcript)

\* a gate that remembers the text of final results only
LastAfterFinalOnly(is_final, transcript, last) ==
    IF is_final THEN transcript ELSE last

\* last_transcript after a forward: the text of the forwarded result
LastAfterForward(is_final, transcript, last) ==
    transcript

\* a listener that gives up on anything but a result
StopsOnError(resp) ==
    IF resp.kind = "result" THEN is_running ELSE FALSE

\* is_running after one round of the listener loop: _process_response catches
\* what it raises and the loop logs any other exception and goes on
RunsAfter(resp) ==
    is_running

\* one round of the listener loop, _process_response included, without the
\* effect of the callback
GateStep(resp, raises) ==
    /\ Listening
    /\ events' = Append(events, resp)
    /\ IF Forwarded(resp)
       THEN /\ last_transcript' =
                  LastAfterForward(resp.is_final, resp.transcript, last_transcript)
            /\ cb_calls' = Append(cb_calls, resp.transcript)
            /\ cb_errors' = IF raises THEN cb_errors + 1 ELSE cb_errors
       ELSE /\ raises = FALSE
            /\ UNCHANGED <<last_transcript, cb_calls, cb_errors>>
    /\ is_running' = RunsAfter(resp)
    /\ UNCHANGED <<configVars, sim_pos, ws, stream_pc, stopped>>

\* _process_response with an ordinary synchronous callback, which may raise
ProcessResponsePlain(resp, raises) ==
    /\ on_transcript = "plain"
    /\ GateStep(resp, raises)
    /\ UNCHANGED coroutines
    /\ UNCHANGED <<pipeVars, setupVars, roomVars, promptVars, lifeVars, appVars>>

\* _process_response with TranslationSystem.handle_transcript as the callback:
\* the call of an async def only makes a coroutine object, which nothing awaits
ProcessResponseAsync(resp) ==
    /\ on_transcript = "ts"
    /\ GateStep(resp, FALSE)
    /\ coroutines' = IF Forwarded(resp) THEN coroutines + 1 ELSE coroutines
    /\ UNCHANGED <<pipeVars, setupVars, roomVars, promptVars, lifeVars, appVars>>

\* stop_stream in simulation mode: it clears is_running and returns
StopSimulation ==
    /\ stream_pc = "simulating"
    /\ is_running
    /\ is_running' = FALSE
    /\ stopped' = TRUE
    /\ UNCHANGED <<configVars, sim_pos, ws, stream_pc, last_transcript, events,
                   cb_calls, cb_errors, coroutines>>
    /\ UNCHANGED <<pipeVars, setupVars, roomVars, promptVars, lifeVars, appVars>>

\* _run_simulation wakes from its sleep, finds is_running cleared and ends
SimulationEnds ==
    /\ stream_pc = "simulating"
    /\ ~is_running
    /\ stream_pc' = "idle"
    /\ UNCHANGED <<configVars, sim_pos, is_running, ws, stopped, last_transcript,
                   events, cb_calls, cb_errors, coroutines>>
    /\ UNCHANGED <<pipeVars, setupVars, roomVars, promptVars, lifeVars, appVars>>

(* ---------------------- DeepgramClient lifecycle ---------------------- *)
\* self.ws and self.ws.open
WsOpen(c, socks) ==
    c.ws # 0 /\ socks[c.ws] = "open"

\* the task asyncio.create_task(self._listen_for_results()) makes
NewListener ==
    [pc |-> "created", sock |-> 0, emitted |-> 0]

NewStart(by, pc) ==
    [by |-> by, pc |-> pc, listener |-> 0, sock |-> 0, stream |-> 0, closing |-> 0,
     audio |-> "none", failed |-> FALSE]

\* audio_stream.stop() and audio_stream.close() on stream a, when there is one
StopAndClose(strms, a) ==
    IF a = 0 THEN strms ELSE [strms EXCEPT ![a] = "closed"]

\* the except branch of start_stream awaits self.ws.close() when there is a
\* connection and the client is not in simulation mode
ExceptClosesWs(c) ==
    c.ws # 0 /\ ~c.simulation_mode

\* the except branch of start_stream stops and closes the audio stream on the
\* same condition
ExceptClosesAudio(c) ==
    c.audio_stream # 0 /\ ~c.simulation_mode

\* the except branch of start_stream for call record u, with the client and the
\* streams as the failed step left them: it clears is_running and runs up to the
\* await of ws.close(), or to the raise when there is nothing to await
StartFails(i, u, c, strms) ==
    LET d == [c EXCEPT !.is_running = FALSE] IN
    /\ client' = d
    /\ IF ExceptClosesWs(d)
       THEN /\ start_calls' = [start_calls EXCEPT ![i] =
                                   [u EXCEPT !.pc = "closing", !.closing = d.ws,
                                             !.failed = TRUE]]
            /\ streams' = strms
       ELSE /\ start_calls' = [start_calls EXCEPT ![i] =
                                   [u EXCEPT !.pc = "raised", !.failed = TRUE]]
            /\ streams' = IF ExceptClosesAudio(d)
                          THEN StopAndClose(strms, d.audio_stream)
                          ELSE strms

\* start_stream is called: it returns at once on a running client; otherwise
\* it sets is_running and runs to the await of the connection, or in simulation
\* mode creates the listener task and runs to the await of that task
StartStreamBody(by) ==
    /\ Len(start_calls) < MaxStarts
    /\ IF client.is_running
       THEN /\ start_calls' = Append(start_calls, NewStart(by, "returned"))
            /\ UNCHANGED <<client, listeners>>
       ELSE /\ client' = [client EXCEPT !.is_running = TRUE]
            /\ IF client.simulation_mode
               THEN /\ listeners' = Append(listeners, NewListener)
                    /\ start_calls' =
                           Append(start_calls,
                                  [NewStart(by, "awaiting") EXCEPT
                                      !.listener = Len(listeners) + 1])
               ELSE /\ start_calls' = Append(start_calls, NewStart(by, "connecting"))
                    /\ UNCHANGED listeners
    /\ UNCHANGED <<sockets, streams>>

\* a start_stream call of a user of the client
StartCall(by) ==
    /\ StartStreamBody(by)
    /\ UNCHANGED stop_calls
    /\ UNCHANGED <<gateVars, pipeVars, setupVars, roomVars, promptVars, systemVars, appVars>>

\* what the start of the audio capture can end with: the stream is started, the
\* import of sounddevice raises ImportError, making the stream raises, or
\* starting it raises
AudioOutcomes == {"started", "import_error", "create_fails", "start_fails"}

\* the import of sounddevice gives one process one answer: it cannot raise
\* ImportError after an earlier call got past it
ImportCanFail ==
    \A j \in 1..Len(start_calls) : start_calls[j].audio = "none"

\* websockets.connect raised in call i: _connect_websocket raises
\* ConnectionError and the except branch of start_stream runs
ConnectFailed(i) ==
    /\ i \in 1..Len(start_calls)
    /\ start_calls[i].pc = "connecting"
    /\ StartFails(i, start_calls[i], client, streams)
    /\ UNCHANGED <<sockets, listeners, stop_calls>>
    /\ UNCHANGED <<gateVars, pipeVars, setupVars, roomVars, promptVars, systemVars, appVars>>

\* websockets.connect returned in call i: the connection is stored, the listener
\* task is created and, outside simulation mode, the audio capture is started;
\* the call then awaits the listener task, or its except branch runs
Connected(i, audio) ==
    /\ i \in 1..Len(start_calls)
    /\ start_calls[i].pc = "connecting"
    /\ client.simulation_mode => audio = "started"
    /\ audio = "import_error" => ImportCanFail
    /\ LET s == Len(sockets) + 1
           a == Len(streams) + 1
           c == [client EXCEPT !.ws = s]
           u == [start_calls[i] EXCEPT !.sock = s, !.listener = Len(listeners) + 1,
                                       !.audio = IF client.simulation_mode
                                                 THEN "none" ELSE audio]
       IN  /\ sockets' = Append(sockets, "open")
           /\ listeners' = Append(listeners, NewListener)
           /\ CASE client.simulation_mode ->
                     /\ client' = c
                     /\ start_calls' = [start_calls EXCEPT ![i] =
                                            [u EXCEPT !.pc = "awaiting"]]
                     /\ UNCHANGED streams
                [] ~client.simulation_mode /\ audio = "started" ->
                     /\ client' = [c EXCEPT !.audio_stream = a]
                     /\ streams' = Append(streams, "started")
                     /\ start_calls' = [start_calls EXCEPT ![i] =
                                            [u EXCEPT !.pc = "awaiting", !.stream = a]]
                [] ~client.simulation_mode /\ audio = "import_error" ->
                     /\ client' = [c EXCEPT !.simulation_mode = TRUE]
                     /\ start_calls' = [start_calls EXCEPT ![i] =
                                            [u EXCEPT !.pc = "awaiting"]]
                     /\ UNCHANGED streams
                [] ~client.simulation_mode /\ audio = "create_fails" ->
                     StartFails(i, u, c, streams)
                [] ~client.simulation_mode /\ audio = "start_fails" ->
                     StartFails(i, [u EXCEPT !.stream = a],
                                [c EXCEPT !.audio_stream = a],
                                Append(streams, "created"))
    /\ UNCHANGED stop_calls
    /\ UNCHANGED <<gateVars, pipeVars, setupVars, roomVars, promptVars, systemVars, appVars>>

\* ws.close() returns in the except branch of call i: the audio stream is
\* stopped and closed and the exception is raised again
StartClosed(i) ==
    /\ i \in 1..Len(start_calls)
    /\ start_calls[i].pc = "closing"
    /\ sockets' = [sockets EXCEPT ![start_calls[i].closing] = "closed"]
    /\ streams' = IF ExceptClosesAudio(client)
                  THEN StopAndClose(streams, client.audio_stream)
                  ELSE streams
    /\ start_calls' = [start_calls EXCEPT ![i].pc = "raised"]
    /\ UNCHANGED <<client, listeners, stop_calls>>
    /\ UNCHANGED <<gateVars, pipeVars, setupVars, roomVars, promptVars, systemVars, appVars>>

\* the listener task of call i has ended: await listen_task returns and so does
\* start_stream
StartReturns(i) ==
    /\ i \in 1..Len(start_calls)
    /\ start_calls[i].pc = "awaiting"
    /\ listeners[start_calls[i].listener].pc = "done"
    /\ start_calls' = [start_calls EXCEPT ![i].pc = "returned"]
    /\ UNCHANGED <<client, sockets, streams, listeners, stop_calls>>
    /\ UNCHANGED <<gateVars, pipeVars, setupVars, roomVars, promptVars, systemVars, appVars>>

\* the finally branch of _listen_for_results and of _run_simulation
ListenerEnds(l) ==
    /\ listeners' = [listeners EXCEPT ![l].pc = "done"]
    /\ client' = [client EXCEPT !.is_running = FALSE]

\* the test of the while loop of _listen_for_results, and the await of
\* ws.recv() on the connection the client holds then
ListenerLoops(l, emitted) ==
    IF client.is_running /\ WsOpen(client, sockets)
    THEN /\ listeners' = [listeners EXCEPT ![l] =
                              [pc |-> "recv", sock |-> client.ws, emitted |-> emitted]]
         /\ UNCHANGED client
    ELSE /\ listeners' = [listeners EXCEPT ![l] =
                              [pc |-> "done", sock |-> listeners[l].sock,
                               emitted |-> emitted]]
         /\ client' = [client EXCEPT !.is_running = FALSE]

\* one round of the loops of _run_simulation: with is_running set it calls
\* on_transcript and sleeps, otherwise it leaves through the finally branch
SimulationLoops(l) ==
    IF client.is_running
    THEN /\ listeners[l].emitted < MaxEmit
         /\ listeners' = [listeners EXCEPT ![l].pc = "sleeping", ![l].emitted = @ + 1]
         /\ UNCHANGED client
    ELSE ListenerEnds(l)

\* a listener task starts to run: _run_simulation in simulation mode, the loop
\* over ws.recv() otherwise
ListenerRun(l) ==
    /\ l \in 1..Len(listeners)
    /\ listeners[l].pc = "created"
    /\ IF client.simulation_mode
       THEN SimulationLoops(l)
       ELSE ListenerLoops(l, 0)
    /\ UNCHANGED <<sockets, streams, start_calls, stop_calls>>
    /\ UNCHANGED <<gateVars, pipeVars, setupVars, roomVars, promptVars, systemVars, appVars>>

\* asyncio.sleep(10) ends in a simulation loop
Wake(l) ==
    /\ l \in 1..Len(listeners)
    /\ listeners[l].pc = "sleeping"
    /\ SimulationLoops(l)
    /\ UNCHANGED <<sockets, streams, start_calls, stop_calls>>
    /\ UNCHANGED <<gateVars, pipeVars, setupVars, roomVars, promptVars, systemVars, appVars>>

\* ws.recv() gives listener l a response, which _process_response handles, and
\* the loop goes on to its test
Received(l) ==
    /\ l \in 1..Len(listeners)
    /\ listeners[l].pc = "recv"
    /\ sockets[listeners[l].sock] = "open"
    /\ listeners[l].emitted < MaxEmit
    /\ ListenerLoops(l, listeners[l].emitted + 1)
    /\ UNCHANGED <<sockets, streams, start_calls, stop_calls>>
    /\ UNCHANGED <<gateVars, pipeVars, setupVars, roomVars, promptVars, systemVars, appVars>>

\* ws.recv() raises ConnectionClosed in listener l: the loop breaks
ReceiveClosed(l) ==
    /\ l \in 1..Len(listeners)
    /\ listeners[l].pc = "recv"
    /\ sockets[listeners[l].sock] = "closed"
    /\ ListenerEnds(l)
    /\ UNCHANGED <<sockets, streams, start_calls, stop_calls>>
    /\ UNCHANGED <<gateVars, pipeVars, setupVars, roomVars, promptVars, systemVars, appVars>>

\* the recognizer or the network closes connection s
PeerCloses(s) ==
    /\ s \in 1..Len(sockets)
    /\ sockets[s] = "open"
    /\ sockets' = [sockets EXCEPT ![s] = "closed"]
    /\ UNCHANGED <<client, streams, listeners, start_calls, stop_calls>>
    /\ UNCHANGED <<gateVars, pipeVars, setupVars, roomVars, promptVars, systemVars, appVars>>

NewStop(by, pc, closing) ==
    [by |-> by, pc |-> pc, closing |-> closing]

\* the first test of stop_stream: it returns at once when is_running is False
StopReturnsEarly(running) ==
    ~running

\* stop_stream is called: on a running client it clears is_running and, outside
\* simulation mode, stops and closes the audio stream and runs to the await of
\* ws.close()
StopStreamBody(by) ==
    /\ Len(stop_calls) < MaxStops
    /\ CASE StopReturnsEarly(client.is_running) ->
              /\ stop_calls' = Append(stop_calls, NewStop(by, "returned", 0))
              /\ UNCHANGED <<client, streams>>
         [] ~StopReturnsEarly(client.is_running) /\ client.simulation_mode ->
              /\ stop_calls' = Append(stop_calls, NewStop(by, "returned", 0))
              /\ client' = [client EXCEPT !.is_running = FALSE]
              /\ UNCHANGED streams
         [] ~StopReturnsEarly(client.is_running) /\ ~client.simulation_mode ->
              /\ streams' = StopAndClose(streams, client.audio_stream)
              /\ client' = [client EXCEPT !.is_running = FALSE, !.audio_stream = 0]
              /\ stop_calls' =
                     Append(stop_calls,
                            IF client.ws # 0
                            THEN NewStop(by, "closing", client.ws)
                            ELSE NewStop(by, "returned", 0))
    /\ UNCHANGED sockets

\* a stop_stream call of a user of the client
StopCall(by) ==
    /\ StopStreamBody(by)
    /\ UNCHANGED <<listeners, start_calls>>
    /\ UNCHANGED <<gateVars, pipeVars, setupVars, roomVars, promptVars, systemVars, appVars>>

\* ws.close() returns in stop_stream call p: self.ws = None, and the call returns
StopClosed(p) ==
    /\ p \in 1..Len(stop_calls)
    /\ stop_calls[p].pc = "closing"
    /\ sockets' = [sockets EXCEPT ![stop_calls[p].closing] = "closed"]
    /\ client' = [client EXCEPT !.ws = 0]
    /\ stop_calls' = [stop_calls EXCEPT ![p].pc = "returned"]
    /\ UNCHANGED <<streams, listeners, start_calls>>
    /\ UNCHANGED <<gateVars, pipeVars, setupVars, roomVars, promptVars, systemVars, appVars>>

(* ------------------------- TranslationSystem -------------------------- *)
\* LANGUAGES, in the order of the dict
LANGUAGES == <<[code |-> "ko", room |-> "room_kr"], [code |-> "vi", room |-> "room_vn"]>>

\* CartesiaTTS.LANGUAGE_CODES
LANGUAGE_CODES == {"ko", "vi"}

RoomNames == {"room_kr", "room_vn"}

\* TranslationSystem.__init__ and the default CartesiaTTS and AudioPublisher
InitSystem ==
    /\ ts_calls = <<>>
    /\ ts_last_transcript = ""
    /\ ts_dispatches = 0
    /\ tasks = <<>>
    /\ broadcasts = <<>>
    /\ active_broadcasts = [n \in RoomNames |-> 0]

\* the dict AudioPublisher.publish_audio builds and returns
PublishResult(ok, room) ==
    [success |-> ok, room |-> room, error |-> IF ok THEN "None" ELSE "msg"]

\* a dispatcher that takes the room of the first language for every task
NewTaskFirstRoom(d, text, target) ==
    [dispatch |-> d, text |-> text, lang |-> target.code, room |-> LANGUAGES[1].room,
     pc |-> "created", http |-> [kind |-> "none", status |-> 0, body |-> <<>>],
     audio |-> <<>>, published |-> <<>>, attempts |-> [tts |-> 0, publish |-> 0],
     result |-> PublishResult(FALSE, LANGUAGES[1].room), outcome |-> "none"]

\* a translate_and_speak coroutine wrapped in a task by asyncio.create_task
NewTask(d, text, target) ==
    [dispatch |-> d, text |-> text, lang |-> target.code, room |-> target.room,
     pc |-> "created", http |-> [kind |-> "none", status |-> 0, body |-> <<>>],
     audio |-> <<>>, published |-> <<>>, attempts |-> [tts |-> 0, publish |-> 0],
     result |-> PublishResult(FALSE, target.room), outcome |-> "none"]

\* the first test of handle_transcript: a text equal to the last one it
\* dispatched is dropped
Suppressed(text, last) ==
    text = last

\* TranslationSystem.handle_transcript, awaited by its caller, up to its await
\* of asyncio.gather
HandleTranscript(text) ==
    /\ Len(ts_calls) < MaxCalls
    /\ ts_calls' = Append(ts_calls, text)
    /\ IF Suppressed(text, ts_last_transcript)
       THEN UNCHANGED <<ts_last_transcript, ts_dispatches, tasks>>
       ELSE /\ ts_dispatches < MaxDispatch
            /\ ts_last_transcript' = text
            /\ ts_dispatches' = ts_dispatches + 1
            /\ tasks' = tasks \o [k \in 1..Len(LANGUAGES) |->
                                      NewTask(ts_dispatches + 1, text, LANGUAGES[k])]
    /\ UNCHANGED <<tts_api_key, broadcasts, active_broadcasts>>
    /\ UNCHANGED <<gateVars, setupVars, roomVars, promptVars, lifeVars, appVars>>

\* the checks of CartesiaTTS.text_to_speech before it sends the request
TtsRejects(api_key, language) ==
    ~api_key \/ language \notin LANGUAGE_CODES

\* what the HTTP request of text_to_speech can end with
HttpOutcomes ==
    [kind : {"response"}, status : {200}, body : Bodies]
    \cup [kind : {"response"}, status : {500}, body : {<<1, 2>>}]
    \cup [kind : {"client_error"}, status : {0}, body : {<<>>}]

\* a text_to_speech that takes the body of any response for audio
TtsRaisesClientErrorOnly(http) ==
    http.kind = "client_error"

\* text_to_speech raises on a network error and on any status but 200
TtsRaises(http) ==
    http.kind = "client_error" \/ http.status # 200

\* an except branch that starts the coroutine again
TaskRetried(t, http) ==
    [t EXCEPT !.pc = "created", !.http = http]

\* the except branch of translate_and_speak: it logs the error and the
\* coroutine ends
TaskFailed(t, http) ==
    [t EXCEPT !.pc = "done", !.http = http, !.outcome = "error"]

\* a get_broadcast that makes a new AudioBroadcast on every call
BroadcastAlwaysNew(name) ==
    Len(broadcasts) + 1

\* the broadcast get_broadcast returns for a room: the cached one, whatever its
\* state, or else a new one
BroadcastFor(name) ==
    IF active_broadcasts[name] # 0 THEN active_broadcasts[name] ELSE Len(broadcasts) + 1

\* get_broadcast: a room with no cached broadcast gets a new AudioBroadcast,
\* which is stored in the cache
GetBroadcast(name) ==
    /\ broadcasts' = IF active_broadcasts[name] # 0
                     THEN broadcasts
                     ELSE Append(broadcasts, [name |-> name, lost |-> FALSE])
    /\ active_broadcasts' = [active_broadcasts EXCEPT ![name] = BroadcastFor(name)]

\* a task runs from its start to the await of the HTTP request in text_to_speech
TaskRun(i) ==
    /\ i \in 1..Len(tasks)
    /\ tasks[i].pc = "created"
    /\ LET called == [tasks[i] EXCEPT !.attempts.tts = @ + 1] IN
       tasks' = [tasks EXCEPT ![i] =
                    IF TtsRejects(tts_api_key, tasks[i].lang)
                    THEN TaskFailed(called, tasks[i].http)
                    ELSE [called EXCEPT !.pc = "tts"]]
    /\ UNCHANGED <<ts_calls, ts_last_transcript, ts_dispatches, tts_api_key, broadcasts,
                   active_broadcasts>>
    /\ UNCHANGED <<gateVars, setupVars, roomVars, promptVars, lifeVars, appVars>>

\* a publish_audio that hands on the audio without its first byte
PublishArgumentTail(audio_bytes) ==
    IF audio_bytes = <<>> THEN <<>> ELSE Tail(audio_bytes)

\* the argument publish_audio gives to broadcast.publish: the audio_bytes it
\* was called with (_get_audio_info only reads them)
PublishArgument(audio_bytes) ==
    audio_bytes

\* the request of text_to_speech ends; with audio, publish_audio runs up to the
\* await of broadcast.publish (get_broadcast caches the broadcast of the room)
TtsReturn(i, http) ==
    /\ i \in 1..Len(tasks)
    /\ tasks[i].pc = "tts"
    /\ IF TtsRaises(http)
       THEN /\ tasks' = [tasks EXCEPT ![i] = TaskFailed(tasks[i], http)]
            /\ UNCHANGED <<broadcasts, active_broadcasts>>
       ELSE /\ tasks' = [tasks EXCEPT ![i] =
                           [tasks[i] EXCEPT !.pc = "publishing", !.http = http,
                                            !.audio = http.body,
                                            !.attempts.publish = @ + 1,
                                            !.published =
                                                Append(@, PublishArgument(http.body))]]
            /\ GetBroadcast(tasks[i].room)
    /\ UNCHANGED <<ts_calls, ts_last_transcript, ts_dispatches, tts_api_key>>
    /\ UNCHANGED <<gateVars, setupVars, roomVars, promptVars, lifeVars, appVars>>

\* the truth value Python gives a dict in a condition: it is not empty
Truthy(d) ==
    DOMAIN d # {}

\* the branch translate_and_speak takes on the value publish_audio returned
PublishBranch(result) ==
    IF Truthy(result) THEN "published" ELSE "publish_failed"

\* broadcast.publish returns or raises, publish_audio returns its result and
\* translate_and_speak logs the outcome
PublishReturn(i, ok) ==
    /\ i \in 1..Len(tasks)
    /\ tasks[i].pc = "publishing"
    /\ LET result == PublishResult(ok, tasks[i].room) IN
       tasks' = [tasks EXCEPT ![i] =
                    [tasks[i] EXCEPT !.pc = "done", !.result = result,
                                     !.outcome = PublishBranch(result)]]
    /\ UNCHANGED <<ts_calls, ts_last_transcript, ts_dispatches, tts_api_key, broadcasts,
                   active_broadcasts>>
    /\ UNCHANGED <<gateVars, setupVars, roomVars, promptVars, lifeVars, appVars>>

(* ------------------------------ prompts ------------------------------- *)
\* the instruction templates of translation_prompts.py, as sequences of
\* characters: each starts with the name of its language
KR_PROMPT == <<"kr", "rules">>
VN_PROMPT == <<"vn", "rules">>
JP_PROMPT == <<"jp", "rules">>

\* the template each TranslationAgent and each test_llm branch is given
PromptOf(lang) ==
    CASE lang = "kr" -> KR_PROMPT
      [] lang = "vn" -> VN_PROMPT
      [] lang = "jp" -> JP_PROMPT

PromptLanguages == {"kr", "vn", "jp"}

\* the translators create_agent_session makes and their system prompts
TranslatorLanguages == {"kr", "vn"}

\* the instructions translate_text writes into its two prompts
InlineInstruction(lang) ==
    <<"to", lang, ":">>

\* an on_message that puts the message before the prompt
MessageThenPrompt(prompt, message) ==
    message \o <<"\n\n">> \o prompt

\* TranslationAgent.on_message: f"{self.prompt}\n\n{message}"
OnMessageResult(prompt, message) ==
    prompt \o <<"\n\n">> \o message

\* test_llm: f"{KR_PROMPT}\n\n{text}", and the same for the other languages
TestLlmPrompt(lang, text) ==
    PromptOf(lang) \o <<"\n\n">> \o text

\* GroqTranslator.generate: the messages of the completion request
GenerateMessages(system_prompt, text) ==
    <<[role |-> "system", content |-> system_prompt],
      [role |-> "user", content |-> text]>>

\* the contents of a list of messages in the order the request carries them
RECURSIVE Contents_(_)
Contents_(messages) ==
    IF messages = <<>> THEN <<>>
    ELSE Head(messages).content \o Contents_(Tail(messages))

\* translate_text: the instruction, then the text
TranslateTextPrompt(lang, text) ==
    InlineInstruction(lang) \o text

InitPrompts ==
    llm_prompts = <<>>

\* one prompt more in the history
Built(by, lang, instruction, text, sent) ==
    /\ Len(llm_prompts) < MaxPrompts
    /\ llm_prompts' = Append(llm_prompts,
                             [by |-> by, lang |-> lang, instruction |-> instruction,
                              text |-> text, sent |-> sent])
    /\ UNCHANGED <<gateVars, pipeVars, setupVars, roomVars, lifeVars, appVars>>

\* the agent of one language is given a message
OnMessage(lang, message) ==
    Built("on_message", lang, PromptOf(lang), message,
          OnMessageResult(PromptOf(lang), message))

\* test_llm is called with a text and a target language it supports
TestLlm(lang, text) ==
    Built("test_llm", lang, PromptOf(lang), text, TestLlmPrompt(lang, text))

\* the translator of one language is asked for a translation
Generate(lang, text) ==
    Built("generate", lang, PromptOf(lang), text,
          Contents_(GenerateMessages(PromptOf(lang), text)))

\* translate_text builds the prompt of one translator
TranslateText(lang, text) ==
    Built("translate_text", lang, InlineInstruction(lang), text,
          TranslateTextPrompt(lang, text))

(* ----------------------- setup_deepgram_client ------------------------ *)
\* the translators of translate_text in the order it uses them
Translators == <<"kr_translator", "vn_translator">>

\* str.strip(): drop the whitespace at both ends
RECURSIVE LStrip(_)
LStrip(s) ==
    IF s # <<>> /\ Head(s) = " " THEN LStrip(Tail(s)) ELSE s

RECURSIVE RStrip(_)
RStrip(s) ==
    IF s # <<>> /\ s[Len(s)] = " " THEN RStrip(SubSeq(s, 1, Len(s) - 1)) ELSE s

Strip(s) ==
    RStrip(LStrip(s))

\* the text of the error callbacks, "[... error: ...]"
ErrorText == <<"[", "e", "]">>

InitSetup ==
    /\ tt_tasks = <<>>
    /\ late_output = FALSE
    /\ InitPrompts
    /\ InitApp

\* what one achat call can end with
AchatOutcomes ==
    [kind : {"raise"}, content : {<<>>}] \cup [kind : {"content"}, content : Contents]

NoCall == [kind |-> "none", content |-> <<>>]

NoDelivery == [kind |-> "none", text |-> <<>>]

\* the next translator translate_text finds configured after position k (0: none)
NextTranslator(k) ==
    IF \E j \in (k + 1)..Len(Translators) : Translators[j] \in agent_session
    THEN CHOOSE j \in (k + 1)..Len(Translators) :
            /\ Translators[j] \in agent_session
            /\ \A m \in (k + 1)..(j - 1) : Translators[m] \notin agent_session
    ELSE 0

\* translate_text moves on after the part of translator k
Advance(t, k) ==
    IF NextTranslator(k) = 0
    THEN [t EXCEPT !.pc = "done"]
    ELSE [t EXCEPT !.pc = "achat", !.lang = NextTranslator(k),
                   !.calls[NextTranslator(k)] = @ + 1]

\* the task asyncio.create_task(translate_text()) makes
NewTranslate(text) ==
    [text |-> text, pc |-> "created", lang |-> 0,
     achat |-> [k \in 1..Len(Translators) |-> NoCall],
     out |-> [k \in 1..Len(Translators) |-> NoDelivery],
     order |-> <<>>, calls |-> [k \in 1..Len(Translators) |-> 0]]

\* a handler that returns only when the tasks created before it have ended
ReturnsAfterEarlierTasks(ts) ==
    \A i \in 1..Len(ts) : ts[i].pc \in {"done", "died"}

\* handle_transcript hands translate_text() to asyncio.create_task and returns:
\* the call waits for no task
HandlerReturns(ts) ==
    TRUE

\* _process_response with setup_deepgram_client's handle_transcript as the
\* callback: it creates a translate_text task and keeps no handle to it
ProcessResponseSetup(resp) ==
    /\ on_transcript = "setup"
    /\ Len(tt_tasks) < MaxTranslate
    /\ HandlerReturns(tt_tasks)
    /\ GateStep(resp, FALSE)
    /\ tt_tasks' = IF Forwarded(resp)
                   THEN Append(tt_tasks, NewTranslate(resp.transcript))
                   ELSE tt_tasks
    /\ UNCHANGED <<coroutines, agent_session, late_output>>
    /\ UNCHANGED <<pipeVars, roomVars, promptVars, lifeVars, appVars>>

\* a translate_text task runs from its start to its first await
TranslateRun(i) ==
    /\ i \in 1..Len(tt_tasks)
    /\ tt_tasks[i].pc = "created"
    /\ tt_tasks' = [tt_tasks EXCEPT ![i] = Advance(tt_tasks[i], 0)]
    /\ UNCHANGED <<agent_session, late_output>>
    /\ UNCHANGED <<gateVars, pipeVars, roomVars, promptVars, lifeVars, appVars>>

\* one call of on_kr_translation or on_vn_translation that returned
Delivery(kind, text) ==
    [kind |-> kind, text |-> text]

\* does translate_text hand the translator's answer to the output callback
Delivers(outcome) ==
    outcome.kind = "content" /\ Strip(outcome.content) # <<>>

\* the output callback of translator k returned for task t: the history of the
\* task keeps what it was given and the order of the calls
Deliver(t, k, d) ==
    [t EXCEPT !.out[k] = d, !.order = Append(@, k)]

\* the except branch of one translator's part: the error text goes to the output
\* callback, and when that call raises too the exception leaves translate_text
ExceptBranch(t, k, r2) ==
    IF r2
    THEN [t EXCEPT !.pc = "died"]
    ELSE Advance(Deliver(t, k, Delivery("error", ErrorText)), k)

\* r1 and r2 say whether the output callback raises on the translation and on
\* the error text: a callback that is not called does not raise
CallbackRaises(outcome, r1, r2) ==
    IF outcome.kind = "raise" THEN ~r1
    ELSE IF ~Delivers(outcome) THEN ~r1 /\ ~r2
    ELSE IF r1 THEN TRUE
    ELSE ~r2

\* translate_text from the return of the achat call of task t to its next await
\* or its end
AchatStep(t, outcome, r1, r2) ==
    LET k == t.lang
        u == [t EXCEPT !.achat[k] = outcome]
    IN  IF outcome.kind = "raise" THEN ExceptBranch(u, k, r2)
        ELSE IF ~Delivers(outcome) THEN Advance(u, k)
        ELSE IF r1 THEN ExceptBranch(u, k, r2)
        ELSE Advance(Deliver(u, k, Delivery("translation", Strip(outcome.content))), k)

\* achat returns or raises in task i
AchatReturn(i, outcome, r1, r2) ==
    /\ i \in 1..Len(tt_tasks)
    /\ tt_tasks[i].pc = "achat"
    /\ CallbackRaises(outcome, r1, r2)
    /\ tt_tasks' = [tt_tasks EXCEPT ![i] = AchatStep(tt_tasks[i], outcome, r1, r2)]
    /\ late_output' = (late_output \/ (stopped /\ tt_tasks'[i].out # tt_tasks[i].out))
    /\ UNCHANGED agent_session
    /\ UNCHANGED <<gateVars, pipeVars, roomVars, promptVars, lifeVars, appVars>>

\* one round of the loop of _run_simulation: it calls on_transcript with the next
\* sample text, with no gate and no try around the call, and sleeps. An
\* exception of the callback leaves the loop through the except branch around
\* it, and the finally branch clears is_running.
Simulate(raises) ==
    /\ stream_pc = "simulating"
    /\ is_running
    /\ Len(cb_calls) < MaxEvents
    /\ cb_calls' = Append(cb_calls, SampleTexts[sim_pos])
    /\ IF raises
       THEN /\ on_transcript = "plain"
            /\ cb_errors' = cb_errors + 1
            /\ is_running' = FALSE
            /\ stream_pc' = "idle"
            /\ UNCHANGED sim_pos
       ELSE /\ sim_pos' = (sim_pos % Len(SampleTexts)) + 1
            /\ UNCHANGED <<cb_errors, is_running, stream_pc>>
    /\ coroutines' = IF on_transcript = "ts" THEN coroutines + 1 ELSE coroutines
    /\ IF on_transcript = "setup"
       THEN /\ Len(tt_tasks) < MaxTranslate
            /\ tt_tasks' = Append(tt_tasks, NewTranslate(SampleTexts[sim_pos]))
       ELSE UNCHANGED tt_tasks
    /\ UNCHANGED <<configVars, ws, stopped, last_transcript, events>>
    /\ UNCHANGED <<agent_session, late_output>>
    /\ UNCHANGED <<pipeVars, roomVars, promptVars, lifeVars, appVars>>

(* ------------------------------ startup ------------------------------- *)
\* the settings the entry points read from the environment
ApiKeys == {"GROQ_API_KEY", "DEEPGRAM_API_KEY", "CARTESIA_API_KEY"}

LiveKitSettings == {"LIVEKIT_URL", "LIVEKIT_API_KEY", "LIVEKIT_API_SECRET"}

Settings == ApiKeys \cup LiveKitSettings

\* the settings an entry point reads and uses: livekit_agent.py all six,
\* TranslationSystem the recogniser and synthesis keys and, through
\* AudioPublisher, the LiveKit settings, setup_deepgram_client the recogniser key
Reads(e) ==
    CASE e = "agent" -> Settings
      [] e = "system" -> {"DEEPGRAM_API_KEY", "CARTESIA_API_KEY"} \cup LiveKitSettings
      [] OTHER -> {"DEEPGRAM_API_KEY"}

\* the callback each entry point gives to DeepgramClient
CallbackOf(e) ==
    CASE e = "system" -> "ts"
      [] e = "setup" -> "setup"
      [] OTHER -> "plain"

\* does the entry point stop before it starts anything: livekit_agent.py exits
\* when an API key is missing, TranslationSystem.start returns when one of its
\* two keys is missing, setup_deepgram_client goes on
Refuses(e, env) ==
    CASE e = "agent" -> ~(ApiKeys \subseteq env)
      [] e = "system" -> "DEEPGRAM_API_KEY" \notin env \/ "CARTESIA_API_KEY" \notin env
      [] OTHER -> FALSE

\* use_simulation of setup_deepgram_client, with the audio modules present and
\* FORCE_SIMULATION not set
UseSimulation(e, env) ==
    e = "setup" /\ "DEEPGRAM_API_KEY" \notin env

\* a process that started with every setting present
Started(e) ==
    /\ entry = e
    /\ on_transcript = CallbackOf(e)
    /\ environ = Settings
    /\ launch = "started"

\* the entry point runs its checks of the environment and makes its client
Launch ==
    /\ launch = "none"
    /\ launch' = IF Refuses(entry, environ) THEN "refused" ELSE "started"
    /\ simulation_mode' = UseSimulation(entry, environ)
    /\ UNCHANGED <<on_transcript, environ, entry>>
    /\ UNCHANGED <<is_running, ws, stream_pc, stopped, last_transcript, events,
                   cb_calls, cb_errors, coroutines, sim_pos>>
    /\ UNCHANGED <<pipeVars, setupVars, roomVars, promptVars, lifeVars, appVars>>

\* TranslationSystem.start and start_deepgram_client call start_stream of the
\* client they made
StartClient ==
    /\ launch = "started"
    /\ entry \in {"system", "setup"}
    /\ StartStream

(* -------------------- TranslationSystem lifecycle --------------------- *)
\* a start() that goes on whatever is_running says
StartAlwaysProceeds(sys) ==
    FALSE

\* the first test of start(): it returns at once on a running system
StartReturnsAtOnce(sys) ==
    sys.is_running

\* the second test of start(): it returns as well when a key is missing
StartGoesOn(sys, env) ==
    ~StartReturnsAtOnce(sys) /\ ~Refuses("system", env)

\* start() is called, by main or by another task while the system runs: past
\* its two tests it sets is_running, makes the DeepgramClient and runs to the
\* first await inside start_stream
SystemStart ==
    /\ system.starts < MaxSystemStarts
    /\ system.clients > 0 => system.is_running
    /\ IF StartGoesOn(system, environ)
       THEN /\ system' = [system EXCEPT !.starts = @ + 1, !.is_running = TRUE,
                                        !.deepgram_client = TRUE, !.clients = @ + 1,
                                        !.pc = "starting",
                                        !.call = Len(start_calls) + 1]
            /\ StartStreamBody("system")
            /\ UNCHANGED stop_calls
       ELSE /\ system' = [system EXCEPT !.starts = @ + 1]
            /\ UNCHANGED streamVars
    /\ UNCHANGED sys_stops
    /\ UNCHANGED <<gateVars, pipeVars, setupVars, roomVars, promptVars, appVars>>

\* start_stream returned to start(): the system is reported as started and the
\* keep-alive loop sleeps
SystemStarted ==
    /\ system.pc = "starting"
    /\ start_calls[system.call].pc = "returned"
    /\ system.is_running
    /\ system' = [system EXCEPT !.pc = "keepalive"]
    /\ UNCHANGED <<streamVars, sys_stops>>
    /\ UNCHANGED <<gateVars, pipeVars, setupVars, roomVars, promptVars, appVars>>

\* stop() is called on system sys: with a client it calls stop_stream and, when
\* that returns without waiting, drops the client and awaits close_all_sessions
BeginStop(by, sys) ==
    IF sys.deepgram_client
    THEN /\ StopStreamBody("system")
         /\ IF stop_calls'[Len(stop_calls')].pc = "returned"
            THEN /\ system' = [sys EXCEPT !.deepgram_client = FALSE]
                 /\ sys_stops' = Append(sys_stops, [by |-> by, pc |-> "sessions",
                                                     call |-> Len(stop_calls')])
            ELSE /\ system' = sys
                 /\ sys_stops' = Append(sys_stops, [by |-> by, pc |-> "stream",
                                                     call |-> Len(stop_calls')])
    ELSE /\ system' = sys
         /\ sys_stops' = Append(sys_stops, [by |-> by, pc |-> "sessions", call |-> 0])
         /\ UNCHANGED <<client, sockets, streams, stop_calls>>

\* start_stream raised in start(): the except branch clears is_running and the
\* finally branch calls stop()
SystemStartRaised ==
    /\ system.pc = "starting"
    /\ start_calls[system.call].pc = "raised"
    /\ BeginStop("start", [system EXCEPT !.is_running = FALSE, !.pc = "cleanup"])
    /\ UNCHANGED <<listeners, start_calls>>
    /\ UNCHANGED <<gateVars, pipeVars, setupVars, roomVars, promptVars, appVars>>

\* Ctrl+C while the keep-alive loop sleeps: the task of main is cancelled and
\* the finally branch of start() calls stop()
SystemInterrupted ==
    /\ system.pc = "keepalive"
    /\ BeginStop("start", [system EXCEPT !.pc = "cleanup"])
    /\ UNCHANGED <<listeners, start_calls>>
    /\ UNCHANGED <<gateVars, pipeVars, setupVars, roomVars, promptVars, appVars>>

\* Ctrl+C while start() awaits start_stream: the cancellation goes through
\* start_stream, whose except branch does not take it, to the listener task
\* that start_stream awaits; a listener that had not run yet ends without its
\* finally branch
SystemCancelled ==
    /\ system.pc = "starting"
    /\ start_calls[system.call].pc \in {"connecting", "closing", "awaiting"}
    /\ LET l == start_calls[system.call].listener IN
       CASE start_calls[system.call].pc # "awaiting" ->
                UNCHANGED <<client, listeners>>
         [] start_calls[system.call].pc = "awaiting" /\ listeners[l].pc = "done" ->
                UNCHANGED <<client, listeners>>
         [] start_calls[system.call].pc = "awaiting" /\ listeners[l].pc = "created" ->
                /\ listeners' = [listeners EXCEPT ![l].pc = "done"]
                /\ UNCHANGED client
         [] start_calls[system.call].pc = "awaiting"
            /\ listeners[l].pc \in {"recv", "sleeping"} ->
                ListenerEnds(l)
    /\ start_calls' = [start_calls EXCEPT ![system.call].pc = "cancelled"]
    /\ system' = [system EXCEPT !.pc = "cancelled"]
    /\ UNCHANGED <<sockets, streams, stop_calls, sys_stops>>
    /\ UNCHANGED <<gateVars, pipeVars, setupVars, roomVars, promptVars, appVars>>

\* the cancelled start() runs its finally branch, which calls stop()
SystemCleanup ==
    /\ system.pc = "cancelled"
    /\ BeginStop("start", [system EXCEPT !.pc = "cleanup"])
    /\ UNCHANGED <<listeners, start_calls>>
    /\ UNCHANGED <<gateVars, pipeVars, setupVars, roomVars, promptVars, appVars>>

\* stop_stream returns to the stop() call k that waited for it: the client is
\* dropped and close_all_sessions is awaited
StopStreamDone(k) ==
    /\ k \in 1..Len(sys_stops)
    /\ sys_stops[k].pc = "stream"
    /\ stop_calls[sys_stops[k].call].pc = "returned"
    /\ system' = [system EXCEPT !.deepgram_client = FALSE]
    /\ sys_stops' = [sys_stops EXCEPT ![k].pc = "sessions"]
    /\ UNCHANGED streamVars
    /\ UNCHANGED <<gateVars, pipeVars, setupVars, roomVars, promptVars, appVars>>

\* close_all_sessions returns to the stop() call k: is_running is cleared and
\* stop() returns; when it was the call of start()'s finally branch, start()
\* returns to main
SessionsClosed(k) ==
    /\ k \in 1..Len(sys_stops)
    /\ sys_stops[k].pc = "sessions"
    /\ system' = [system EXCEPT !.is_running = FALSE,
                                !.pc = IF sys_stops[k].by = "start" THEN "ended" ELSE @]
    /\ sys_stops' = [sys_stops EXCEPT ![k].pc = "returned"]
    /\ UNCHANGED streamVars
    /\ UNCHANGED <<gateVars, pipeVars, setupVars, roomVars, promptVars, appVars>>

\* start() has returned to main, whose finally branch calls stop() once more
MainStop ==
    /\ system.pc = "ended"
    /\ BeginStop("main", [system EXCEPT !.pc = "main_stop"])
    /\ UNCHANGED <<listeners, start_calls>>
    /\ UNCHANGED <<gateVars, pipeVars, setupVars, roomVars, promptVars, appVars>>

(* --------------------------- AudioPublisher --------------------------- *)
Callers == 1..NumCallers

\* AudioPublisher.__init__: no room is cached
InitRooms ==
    /\ rooms = <<>>
    /\ active_rooms = [n \in RoomNames |-> 0]
    /\ callers = [c \in Callers |-> [pc |-> "idle", name |-> "room_kr", room |-> 0]]
    /\ publishes = <<>>
    /\ closer = [pc |-> "idle", todo |-> {}, name |-> "room_kr", room |-> 0,
                 rooms_then |-> 0, broadcasts_then |-> 0, listed |-> {},
                 results |-> <<>>]

\* the first test of get_room: a cached room that is connected
CachedConnected(name) ==
    /\ active_rooms[name] # 0
    /\ rooms[active_rooms[name]].state = "connected"

\* get_room up to its await: it returns the cached room, or makes a new rtc.Room
\* and starts to connect it
GetRoom(c, name) ==
    /\ callers[c].pc = "idle"
    /\ IF CachedConnected(name)
       THEN /\ callers' = [callers EXCEPT ![c] =
                              [pc |-> "idle", name |-> name, room |-> active_rooms[name]]]
            /\ UNCHANGED rooms
       ELSE /\ Len(rooms) < MaxRooms
            /\ rooms' = Append(rooms, [name |-> name, state |-> "disconnected"])
            /\ callers' = [callers EXCEPT ![c] =
                              [pc |-> "connecting", name |-> name, room |-> Len(rooms) + 1]]
    /\ UNCHANGED <<active_rooms, publishes, closer>>
    /\ UNCHANGED <<gateVars, pipeVars, setupVars, promptVars, lifeVars, appVars>>

\* room.connect returns or raises: on success get_room stores the room in the
\* cache and returns it
RoomConnected(c, ok) ==
    /\ callers[c].pc = "connecting"
    /\ IF ok
       THEN /\ rooms' = [rooms EXCEPT ![callers[c].room].state = "connected"]
            /\ active_rooms' = [active_rooms EXCEPT ![callers[c].name] = callers[c].room]
            /\ callers' = [callers EXCEPT ![c].pc = "idle"]
       ELSE /\ callers' = [callers EXCEPT ![c] = [@ EXCEPT !.pc = "idle", !.room = 0]]
            /\ UNCHANGED <<rooms, active_rooms>>
    /\ UNCHANGED <<publishes, closer>>
    /\ UNCHANGED <<gateVars, pipeVars, setupVars, promptVars, lifeVars, appVars>>

\* the server ends the connection of a connected room
RoomLost(r) ==
    /\ r \in 1..Len(rooms)
    /\ rooms[r].state = "connected"
    /\ rooms' = [rooms EXCEPT ![r].state = "disconnected"]
    /\ UNCHANGED <<active_rooms, callers, publishes, closer>>
    /\ UNCHANGED <<gateVars, pipeVars, setupVars, promptVars, lifeVars, appVars>>

\* a publish_audio that drops the broadcast of the room when the publish fails
EvictOnFailure(name, ok) ==
    IF ok THEN active_broadcasts ELSE [active_broadcasts EXCEPT ![name] = 0]

\* active_broadcasts when publish_audio returns: neither the return after the
\* publish nor the except branch touches it
CacheAtReturn(name, ok) ==
    active_broadcasts

\* publish_audio up to the await of broadcast.publish: the audio information is
\* read and get_broadcast returns the broadcast of the room
PublishAudio(name) ==
    /\ Len(publishes) < MaxPublish
    /\ GetBroadcast(name)
    /\ publishes' = Append(publishes,
            [room |-> name, broadcast |-> BroadcastFor(name), pc |-> "publishing",
             success |-> FALSE, rooms_before |-> active_rooms,
             broadcasts_before |-> active_broadcasts])
    /\ UNCHANGED <<ts_calls, ts_last_transcript, ts_dispatches, tasks, tts_api_key>>
    /\ UNCHANGED <<rooms, active_rooms, callers, closer>>
    /\ UNCHANGED <<gateVars, setupVars, promptVars, lifeVars, appVars>>

\* broadcast.publish returns or raises and publish_audio returns its result
PublishDone(p, ok) ==
    /\ p \in 1..Len(publishes)
    /\ publishes[p].pc = "publishing"
    /\ publishes' = [publishes EXCEPT ![p].pc = "done", ![p].success = ok]
    /\ active_broadcasts' = CacheAtReturn(publishes[p].room, ok)
    /\ UNCHANGED <<ts_calls, ts_last_transcript, ts_dispatches, tasks, tts_api_key, broadcasts>>
    /\ UNCHANGED <<rooms, active_rooms, callers, closer>>
    /\ UNCHANGED <<gateVars, setupVars, promptVars, lifeVars, appVars>>

\* the connection of an AudioBroadcast ends for good
BroadcastLost(b) ==
    /\ b \in 1..Len(broadcasts)
    /\ ~broadcasts[b].lost
    /\ broadcasts' = [broadcasts EXCEPT ![b].lost = TRUE]
    /\ UNCHANGED <<ts_calls, ts_last_transcript, ts_dispatches, tasks, tts_api_key,
                   active_broadcasts>>
    /\ UNCHANGED <<gateVars, setupVars, roomVars, promptVars, lifeVars, appVars>>

\* the keys of active_rooms
CachedRooms(cache) ==
    {n \in RoomNames : cache[n] # 0}

\* the loop of close_all from one await to the next: close_room returns True at
\* once for a name that is not in active_rooms, and awaits disconnect() of the
\* room of a name that is; with nothing left close_all returns. The model does
\* not keep the order of the dict: the names are taken in any order.
CloseLoop(c, todo, cache) ==
    IF todo \cap CachedRooms(cache) = {}
    THEN {[c EXCEPT !.pc = "done", !.todo = {}]}
    ELSE {[c EXCEPT !.pc = "disconnecting", !.todo = todo \ {n}, !.name = n,
                    !.room = cache[n]] : n \in todo \cap CachedRooms(cache)}

\* one close_room call that has returned: its room, whether the room was in
\* active_rooms at the call, and the value returned
Closed(name, cached, result) ==
    [name |-> name, cached |-> cached, result |-> result]

\* what close_room returns after the await of disconnect(): True when it
\* returned, False from the except branch when it raised
CloseReturns(ok) ==
    ok

\* close_room called on its own: for a name that is not in active_rooms it
\* returns True at once, otherwise it awaits disconnect() of the cached room
CloseRoom(name) ==
    /\ closer.pc = "idle"
    /\ closer' = IF active_rooms[name] = 0
                 THEN [closer EXCEPT !.pc = "done",
                                     !.results = Append(@, Closed(name, FALSE, TRUE))]
                 ELSE [closer EXCEPT !.pc = "disconnecting", !.name = name,
                                     !.room = active_rooms[name]]
    /\ UNCHANGED <<rooms, active_rooms, callers, publishes>>
    /\ UNCHANGED <<gateVars, pipeVars, setupVars, promptVars, lifeVars, appVars>>

\* close_all: it lists the keys of active_rooms and calls close_room for each
CloseAll ==
    /\ closer.pc = "idle"
    /\ closer' \in CloseLoop([closer EXCEPT !.rooms_then = Len(rooms),
                                             !.broadcasts_then = Len(broadcasts),
                                             !.listed = CachedRooms(active_rooms)],
                              CachedRooms(active_rooms), active_rooms)
    /\ UNCHANGED <<rooms, active_rooms, callers, publishes>>
    /\ UNCHANGED <<gateVars, pipeVars, setupVars, promptVars, lifeVars, appVars>>

\* disconnect() returns or raises in close_room: after a return the entries of
\* the name are deleted from both caches, after an exception (also the KeyError
\* of the del) close_room returns False and leaves what is there; then the loop
\* of close_all goes on
DisconnectDone(ok) ==
    /\ closer.pc = "disconnecting"
    /\ rooms' = IF ok THEN [rooms EXCEPT ![closer.room].state = "disconnected"]
                ELSE rooms
    /\ active_rooms' = IF ok THEN [active_rooms EXCEPT ![closer.name] = 0]
                       ELSE active_rooms
    /\ active_broadcasts' = IF ok /\ active_rooms[closer.name] # 0
                            THEN [active_broadcasts EXCEPT ![closer.name] = 0]
                            ELSE active_broadcasts
    /\ closer' \in CloseLoop([closer EXCEPT !.results =
                                  Append(@, Closed(closer.name, TRUE, CloseReturns(ok)))],
                              closer.todo, active_rooms')
    /\ UNCHANGED <<ts_calls, ts_last_transcript, ts_dispatches, tasks, tts_api_key, broadcasts>>
    /\ UNCHANGED <<callers, publishes>>
    /\ UNCHANGED <<gateVars, setupVars, promptVars, lifeVars, appVars>>

(* ------------------------------ main.py ------------------------------- *)
\* lifespan up to its yield: the worker task is created, not yet started
Startup ==
    /\ service.lifespan = "init"
    /\ service' = [service EXCEPT !.lifespan = "running", !.worker_task = "created"]
    /\ UNCHANGED <<now, web, translation>>
    /\ UNCHANGED <<gateVars, pipeVars, setupVars, roomVars, promptVars, lifeVars>>

\* shutdown_translation_service called by c, up to its first suspension. With no
\* session stored it returns at once. session.close() is called while the list
\* for gather is built: on an object without an awaitable close() that raises
\* inside the try, the except branch logs, and clear() is skipped.
ShutdownCalled(s, c) ==
    IF s.translation_sessions # {} /\ s.awaitable
    THEN [s EXCEPT !.calls[c] = "gathering", !.gathered[c] = s.translation_sessions]
    ELSE [s EXCEPT !.is_translation_running = FALSE, !.calls[c] = "returned"]

\* run_worker after entrypoint_function() is over: heartbeat_task.cancel() follows
\* the await and is skipped when the await raised CancelledError; the lifespan
\* that awaits the worker task goes on
WorkerExits(s) ==
    [s EXCEPT !.worker_task = "exited",
              !.exit = IF s.cancelled THEN "cancelled" ELSE "returned",
              !.heartbeat_task = IF s.cancelled THEN @ ELSE "cancelled",
              !.lifespan = IF @ = "awaiting" THEN "closed" ELSE @]

\* main() from its finally clause on
MainFinally(s) ==
    LET t == ShutdownCalled(s, "main") IN
    IF t.calls["main"] = "returned"
    THEN WorkerExits(t)
    ELSE [t EXCEPT !.worker_task = "stopping"]

\* the worker task runs from run_worker to its first suspension: create_session
\* never suspends, so main() creates its sessions in one step. created of the
\* three create_session calls return, the next one raises; awaitable tells
\* whether the objects create_session returns (a groq.LLM) have awaitable
\* wait_until_done() and close() methods.
RunWorker(created, awaitable) ==
    /\ service.worker_task = "created"
    /\ LET s == [service EXCEPT !.heartbeat_task = "created", !.last_heartbeat = now,
                                !.created = FirstSessions(created),
                                !.awaitable = awaitable]
           stored == [s EXCEPT !.translation_sessions = FirstSessions(created),
                               !.is_translation_running = TRUE]
       IN service' = IF created < Len(SessionOrder)
                     THEN MainFinally([s EXCEPT !.is_translation_running = FALSE])
                     ELSE IF awaitable
                          THEN [stored EXCEPT !.worker_task = "waiting"]
                          ELSE MainFinally([stored EXCEPT !.is_translation_running = FALSE])
    /\ UNCHANGED <<now, web, translation>>
    /\ UNCHANGED <<gateVars, pipeVars, setupVars, roomVars, promptVars, lifeVars>>

\* the gather over wait_until_done() of main() is over, with or without an exception
SessionsDone(ok) ==
    /\ service.worker_task = "waiting"
    /\ ~service.cancel
    /\ service' = MainFinally([service EXCEPT !.is_translation_running = ok /\ @])
    /\ UNCHANGED <<now, web, translation>>
    /\ UNCHANGED <<gateVars, pipeVars, setupVars, roomVars, promptVars, lifeVars>>

\* lifespan after shutdown_translation_service returned: a worker task that is
\* not done is cancelled and awaited
LifespanGoesOn(s) ==
    IF s.worker_task = "exited"
    THEN [s EXCEPT !.lifespan = "closed"]
    ELSE [s EXCEPT !.lifespan = "awaiting", !.cancel = TRUE]

\* lifespan after its yield; the worker task has run by then, as the lifespan
\* waits for the shutdown message in between
Shutdown ==
    /\ service.lifespan = "running"
    /\ service.worker_task \notin {"none", "created"}
    /\ LET t == ShutdownCalled(service, "lifespan") IN
       service' = IF t.calls["lifespan"] = "returned"
                  THEN LifespanGoesOn(t)
                  ELSE [t EXCEPT !.lifespan = "closing"]
    /\ UNCHANGED <<now, web, translation>>
    /\ UNCHANGED <<gateVars, pipeVars, setupVars, roomVars, promptVars, lifeVars>>

\* the gather over close() of the call by c is over; failed are the sessions
\* whose close() raised, which return_exceptions=True turns into results
ShutdownDone(c, failed) ==
    /\ service.calls[c] = "gathering"
    /\ c = "main" => ~service.cancel
    /\ failed \subseteq service.gathered[c]
    /\ LET t == [service EXCEPT !.closed = @ \cup service.gathered[c],
                                !.close_errors = @ \cup failed,
                                !.translation_sessions = {},
                                !.is_translation_running = FALSE,
                                !.calls[c] = "returned"]
       IN service' = IF c = "main" THEN WorkerExits(t) ELSE LifespanGoesOn(t)
    /\ UNCHANGED <<now, web, translation>>
    /\ UNCHANGED <<gateVars, pipeVars, setupVars, roomVars, promptVars, lifeVars>>

\* the worker task is resumed with CancelledError: except Exception does not
\* catch it. Raised in the gather of main(), the finally clause of main() runs
\* shutdown_translation_service before it goes on to run_worker; raised in the
\* gather of shutdown_translation_service, that call never returns.
WorkerCancelled ==
    /\ service.cancel
    /\ service.worker_task \in {"waiting", "stopping"}
    /\ LET s == [service EXCEPT !.cancel = FALSE, !.cancelled = TRUE] IN
       service' = IF service.worker_task = "waiting"
                  THEN MainFinally(s)
                  ELSE WorkerExits([s EXCEPT !.calls["main"] = "cancelled"])
    /\ UNCHANGED <<now, web, translation>>
    /\ UNCHANGED <<gateVars, pipeVars, setupVars, roomVars, promptVars, lifeVars>>

\* one round of worker_heartbeat: the first when the task starts, the next ones
\* when its sleep is over
WorkerHeartbeat ==
    /\ service.heartbeat_task \in {"created", "sleeping"}
    /\ service.heartbeat_task = "sleeping" => now >= service.wake
    /\ service' = [service EXCEPT !.heartbeat_task = "sleeping", !.last_heartbeat = now,
                                  !.wake = now + HeartbeatPeriod]
    /\ UNCHANGED <<now, web, translation>>
    /\ UNCHANGED <<gateVars, pipeVars, setupVars, roomVars, promptVars, lifeVars>>

\* GET /status of main.py
GetStatus ==
    /\ service.lifespan = "running"
    /\ service' = [service EXCEPT !.status =
                      <<[translation_running |-> service.is_translation_running,
                         worker_alive |-> now - service.last_heartbeat < AliveWindow,
                         active_sessions |-> Cardinality(service.translation_sessions)]>>]
    /\ UNCHANGED <<now, web, translation>>
    /\ UNCHANGED <<gateVars, pipeVars, setupVars, roomVars, promptVars, lifeVars>>

\* time passes while no task of main.py is ready to run
WorkerTick ==
    /\ now < StartTime + MaxUptime
    /\ service.worker_task # "created"
    /\ ~service.cancel
    /\ service.heartbeat_task # "created"
    /\ service.heartbeat_task = "sleeping" => now < service.wake
    /\ now' = now + 1
    /\ UNCHANGED <<service, web, translation>>
    /\ UNCHANGED <<gateVars, pipeVars, setupVars, roomVars, promptVars, lifeVars>>

(* ----------------------------- web_only.py ---------------------------- *)
\* lifespan of web_only.py up to its yield
WebStartup ==
    /\ web.lifespan = "init"
    /\ web' = [web EXCEPT !.lifespan = "running", !.is_service_running = TRUE,
                          !.last_heartbeat = now]
    /\ UNCHANGED <<now, service, translation>>
    /\ UNCHANGED <<gateVars, pipeVars, setupVars, roomVars, promptVars, lifeVars>>

\* lifespan of web_only.py after its yield
WebShutdown ==
    /\ web.lifespan = "running"
    /\ web' = [web EXCEPT !.lifespan = "closed", !.is_service_running = FALSE]
    /\ UNCHANGED <<now, service, translation>>
    /\ UNCHANGED <<gateVars, pipeVars, setupVars, roomVars, promptVars, lifeVars>>

\* what a handler returns: get_status builds its answer after check_agent_status
\* returned, from service_alive as computed before the call
Response(w, h, agent) ==
    [route |-> w.handlers[h].route,
     web_service_running |-> w.is_service_running,
     service_alive |-> w.handlers[h].service_alive,
     agent_service |-> agent]

\* a handler that returned: its locals are gone, its answer is kept
Returned(response) ==
    [pc |-> "idle", route |-> "", current_time |-> 0, service_alive |-> FALSE,
     response |-> <<response>>]

\* the test check_agent_status makes before it asks the agent service
CachedStatus(current_time, last_checked) ==
    current_time - last_checked < CheckWindow

\* get_status or get_agent_status up to the suspension in check_agent_status:
\* within the window the cached status is returned, else a request goes out
WebRequest(h, route) ==
    /\ web.lifespan = "running"
    /\ web.handlers[h].pc = "idle"
    /\ LET w == [web EXCEPT !.handlers[h] =
                     [pc |-> "idle", route |-> route, current_time |-> now,
                      service_alive |-> now - web.last_heartbeat < AliveWindow,
                      response |-> <<>>]]
       IN web' = IF CachedStatus(now, web.agent_status.last_checked)
                 THEN [w EXCEPT !.handlers[h] = Returned(Response(w, h, web.agent_status))]
                 ELSE [w EXCEPT !.handlers[h].pc = "probing", !.last_probe = now]
    /\ UNCHANGED <<now, service, translation>>
    /\ UNCHANGED <<gateVars, pipeVars, setupVars, roomVars, promptVars, lifeVars>>

\* the request to the agent service is over: status 200, another status, or an
\* exception; agent_status is replaced and returned
ProbeDone(h, outcome) ==
    /\ web.handlers[h].pc = "probing"
    /\ LET status == [is_running |-> outcome = "200",
                      last_checked |-> web.handlers[h].current_time]
       IN web' = [web EXCEPT !.agent_status = status,
                             !.handlers[h] = Returned(Response(web, h, status))]
    /\ UNCHANGED <<now, service, translation>>
    /\ UNCHANGED <<gateVars, pipeVars, setupVars, roomVars, promptVars, lifeVars>>

\* time passes; a request to the agent service has a timeout of 5 seconds, so it
\* is over before a second tick
WebTick ==
    /\ now < StartTime + MaxUptime
    /\ \A h \in Handlers : web.handlers[h].pc = "probing" => web.handlers[h].current_time = now
    /\ now' = now + 1
    /\ UNCHANGED <<service, web, translation>>
    /\ UNCHANGED <<gateVars, pipeVars, setupVars, roomVars, promptVars, lifeVars>>

(* ------------------- deepgram_integration_example.py ------------------ *)
\* the texts DeepgramClient hands to on_transcript, as sequences of characters:
\* it drops an empty transcript, not one of whitespace
Transcripts == {<<"a">>, <<"b">>, <<" ">>}

\* TranslationSession.handle_transcript
SessionTranscript(text) ==
    /\ translation.transcripts < MaxTranscripts
    /\ translation' = [translation EXCEPT !.transcription_buffer = text,
                                          !.transcripts = @ + 1]
    /\ UNCHANGED <<now, service, web>>
    /\ UNCHANGED <<gateVars, pipeVars, setupVars, roomVars, promptVars, lifeVars>>

\* what one round of the loop of process_transcription makes of last_sent and of
\* the texts given to realtime_model.add_text; realtime_model is set by then
ProcessRound(t) ==
    IF t.transcription_buffer # <<>> /\ t.transcription_buffer # t.last_sent
    THEN [t EXCEPT !.last_sent = t.transcription_buffer,
                   !.sent = IF Strip(t.transcription_buffer) # <<>>
                            THEN Append(@, t.transcription_buffer)
                            ELSE @]
    ELSE t

\* one round of the loop of process_transcription
ProcessTranscription ==
    /\ translation' = ProcessRound(translation)
    /\ UNCHANGED <<now, service, web>>
    /\ UNCHANGED <<gateVars, pipeVars, setupVars, roomVars, promptVars, lifeVars>>

(* ----------------------------- SpecGate ------------------------------- *)
InitGate ==
    /\ entry \in {"client", "system"}
    /\ Started(entry)
    /\ simulation_mode \in BOOLEAN
    /\ InitClient
    /\ InitSystem
    /\ tts_api_key = TRUE
    /\ agent_session = {}
    /\ InitSetup
    /\ InitRooms

NextGate ==
    \/ StartStream
    \/ \E ok \in BOOLEAN : ConnectDone(ok)
    \/ StopStream
    \/ WsClosed
    \/ \E resp \in Responses, raises \in BOOLEAN : ProcessResponsePlain(resp, raises)
    \/ \E resp \in Responses : ProcessResponseAsync(resp)
    \/ \E raises \in BOOLEAN : Simulate(raises)
    \/ StopSimulation
    \/ SimulationEnds

SpecGate == InitGate /\ [][NextGate]_vars

(* ----------------------------- SpecPipe ------------------------------- *)
\* handle_transcript is awaited directly; the recogniser client is not started
InitPipe ==
    /\ Started("system")
    /\ simulation_mode = FALSE
    /\ InitClient
    /\ InitSystem
    /\ tts_api_key \in BOOLEAN
    /\ agent_session = {}
    /\ InitSetup
    /\ InitRooms

NextPipe ==
    \/ \E text \in Texts : HandleTranscript(text)
    \/ \E i \in 1..Len(tasks) : TaskRun(i)
    \/ \E i \in 1..Len(tasks), http \in HttpOutcomes : TtsReturn(i, http)
    \/ \E i \in 1..Len(tasks), ok \in BOOLEAN : PublishReturn(i, ok)

SpecPipe == InitPipe /\ [][NextPipe]_vars

(* ----------------------------- SpecSetup ------------------------------ *)
\* the results the recogniser reports in this specification: final ones, which
\* the gate always forwards
SetupResponses ==
    {r \in Responses : r.kind = "result" /\ r.transcript = "a" /\ r.is_final}

InitSetupSystem ==
    /\ Started("setup")
    /\ simulation_mode = FALSE
    /\ InitClient
    /\ InitSystem
    /\ tts_api_key = TRUE
    /\ agent_session \in SUBSET {"kr_translator", "vn_translator"}
    /\ InitSetup
    /\ InitRooms

NextSetup ==
    \/ StartStream
    \/ \E ok \in BOOLEAN : ConnectDone(ok)
    \/ StopStream
    \/ WsClosed
    \/ \E resp \in SetupResponses : ProcessResponseSetup(resp)
    \/ \E i \in 1..Len(tt_tasks) : TranslateRun(i)
    \/ \E i \in 1..Len(tt_tasks), outcome \in AchatOutcomes, r1, r2 \in BOOLEAN :
            AchatReturn(i, outcome, r1, r2)

SpecSetup == InitSetupSystem /\ [][NextSetup]_vars

(* ----------------------------- SpecRoom ------------------------------- *)
InitRoom ==
    /\ Started("client")
    /\ simulation_mode = FALSE
    /\ InitClient
    /\ InitSystem
    /\ tts_api_key = TRUE
    /\ agent_session = {}
    /\ InitSetup
    /\ InitRooms

NextRoom ==
    \/ \E c \in Callers, name \in RoomNames : GetRoom(c, name)
    \/ \E c \in Callers, ok \in BOOLEAN : RoomConnected(c, ok)
    \/ \E r \in 1..Len(rooms) : RoomLost(r)

SpecRoom == InitRoom /\ [][NextRoom]_vars

(* ----------------------------- SpecStart ------------------------------ *)
\* an entry point is run in an environment with any of the settings present
InitStart ==
    /\ entry \in {"agent", "system", "setup"}
    /\ on_transcript = CallbackOf(entry)
    /\ environ \in SUBSET Settings
    /\ launch = "none"
    /\ simulation_mode = FALSE
    /\ InitClient
    /\ InitSystem
    /\ tts_api_key = ("CARTESIA_API_KEY" \in environ)
    /\ agent_session = {"kr_translator", "vn_translator"}
    /\ InitSetup
    /\ InitRooms

NextStart ==
    \/ Launch
    \/ StartClient
    \/ \E ok \in BOOLEAN : ConnectDone(ok)
    \/ \E resp \in SetupResponses : ProcessResponseSetup(resp)
    \/ \E resp \in SetupResponses : ProcessResponseAsync(resp)
    \/ Simulate(FALSE)
    \/ \E i \in 1..Len(tt_tasks) : TranslateRun(i)

SpecStart == InitStart /\ [][NextStart]_vars

(* ---------------------------- SpecPublish ----------------------------- *)
\* publish_audio called by concurrent tasks on one AudioPublisher
NextPublish ==
    \/ \E name \in RoomNames : PublishAudio(name)
    \/ \E p \in 1..Len(publishes), ok \in BOOLEAN : PublishDone(p, ok)
    \/ \E b \in 1..Len(broadcasts) : BroadcastLost(b)

SpecPublish == InitRoom /\ [][NextPublish]_vars

(* ----------------------------- SpecClose ------------------------------ *)
\* one task connects rooms with get_room, others publish, and close_all is
\* called once
NextClose ==
    \/ \E name \in RoomNames : GetRoom(1, name)
    \/ \E ok \in BOOLEAN : RoomConnected(1, ok)
    \/ \E name \in RoomNames : PublishAudio(name)
    \/ \E p \in 1..Len(publishes), ok \in BOOLEAN : PublishDone(p, ok)
    \/ CloseAll
    \/ \E ok \in BOOLEAN : DisconnectDone(ok)

SpecClose == InitRoom /\ [][NextClose]_vars

(* ---------------------------- SpecShutdown ---------------------------- *)
NextShutdown ==
    \/ \E name \in RoomNames : GetRoom(1, name)
    \/ \E ok \in BOOLEAN : RoomConnected(1, ok)
    \/ \E name \in RoomNames : PublishAudio(name)
    \/ \E name \in RoomNames : CloseRoom(name)
    \/ CloseAll
    \/ \E ok \in BOOLEAN : DisconnectDone(ok)

SpecShutdown == InitRoom /\ [][NextShutdown]_vars

(* ----------------------------- SpecStream ----------------------------- *)
InitStreamClient ==
    /\ Started("client")
    /\ simulation_mode \in BOOLEAN
    /\ InitClient
    /\ InitSystem
    /\ tts_api_key = TRUE
    /\ agent_session = {}
    /\ InitSetup
    /\ InitRooms

NextStream ==
    \/ StartCall("user")
    \/ \E i \in 1..Len(start_calls) : ConnectFailed(i)
    \/ \E i \in 1..Len(start_calls), audio \in AudioOutcomes : Connected(i, audio)
    \/ \E i \in 1..Len(start_calls) : StartClosed(i)
    \/ \E i \in 1..Len(start_calls) : StartReturns(i)
    \/ \E l \in 1..Len(listeners) : ListenerRun(l)
    \/ \E l \in 1..Len(listeners) : Wake(l)
    \/ \E l \in 1..Len(listeners) : Received(l)
    \/ \E l \in 1..Len(listeners) : ReceiveClosed(l)
    \/ \E s \in 1..Len(sockets) : PeerCloses(s)
    \/ StopCall("user")
    \/ \E p \in 1..Len(stop_calls) : StopClosed(p)

SpecStream == InitStreamClient /\ [][NextStream]_vars

(* ----------------------------- SpecSystem ----------------------------- *)
InitSystemRun ==
    /\ Started("system")
    /\ simulation_mode \in BOOLEAN
    /\ InitClient
    /\ InitSystem
    /\ tts_api_key = TRUE
    /\ agent_session = {}
    /\ InitSetup
    /\ InitRooms

NextSystem ==
    \/ SystemStart
    \/ \E i \in 1..Len(start_calls) : ConnectFailed(i)
    \/ \E i \in 1..Len(start_calls), audio \in AudioOutcomes : Connected(i, audio)
    \/ \E i \in 1..Len(start_calls) : StartClosed(i)
    \/ \E i \in 1..Len(start_calls) : StartReturns(i)
    \/ \E l \in 1..Len(listeners) : ListenerRun(l)
    \/ \E l \in 1..Len(listeners) : Wake(l)
    \/ \E l \in 1..Len(listeners) : Received(l)
    \/ \E l \in 1..Len(listeners) : ReceiveClosed(l)
    \/ \E s \in 1..Len(sockets) : PeerCloses(s)
    \/ \E p \in 1..Len(stop_calls) : StopClosed(p)
    \/ SystemStarted
    \/ SystemStartRaised
    \/ SystemInterrupted
    \/ SystemCancelled
    \/ SystemCleanup
    \/ \E k \in 1..Len(sys_stops) : StopStreamDone(k)
    \/ \E k \in 1..Len(sys_stops) : SessionsClosed(k)
    \/ MainStop

SpecSystem == InitSystemRun /\ [][NextSystem]_vars

(* ----------------------------- SpecPrompt ----------------------------- *)
NextPrompt ==
    \/ \E lang \in PromptLanguages, text \in SourceTexts : OnMessage(lang, text)
    \/ \E lang \in PromptLanguages, text \in SourceTexts : TestLlm(lang, text)
    \/ \E lang \in TranslatorLanguages, text \in SourceTexts : Generate(lang, text)
    \/ \E lang \in TranslatorLanguages, text \in SourceTexts : TranslateText(lang, text)

SpecPrompt == InitRoom /\ [][NextPrompt]_vars

(* ----------------------------- SpecWorker ----------------------------- *)
\* main.py under its lifespan
NextWorker ==
    \/ Startup
    \/ \E created \in 0..Len(SessionOrder), awaitable \in BOOLEAN : RunWorker(created, awaitable)
    \/ \E ok \in BOOLEAN : SessionsDone(ok)
    \/ Shutdown
    \/ \E c \in {"lifespan", "main"}, failed \in SUBSET FirstSessions(Len(SessionOrder)) :
          ShutdownDone(c, failed)
    \/ WorkerCancelled
    \/ WorkerHeartbeat
    \/ GetStatus
    \/ WorkerTick

SpecWorker == InitRoom /\ [][NextWorker]_vars

(* ------------------------------ SpecWeb ------------------------------- *)
\* web_only.py under its lifespan
NextWeb ==
    \/ WebStartup
    \/ WebShutdown
    \/ \E h \in Handlers, route \in {"status", "agent_status"} : WebRequest(h, route)
    \/ \E h \in Handlers, outcome \in {"200", "other", "error"} : ProbeDone(h, outcome)
    \/ WebTick

SpecWeb == InitRoom /\ [][NextWeb]_vars

(* ---------------------------- SpecSession ----------------------------- *)
\* process_transcription polls the buffer handle_transcript writes
NextSession ==
    \/ \E text \in Transcripts : SessionTranscript(text)
    \/ ProcessTranscription

SpecSession == InitRoom /\ [][NextSession]_vars

(* ------------------------------ claims -------------------------------- *)
\* the response the last step handed to _process_response
LastEvent == events[Len(events)]

\* C1: for every recogniser result with non-empty text, _process_response calls
\* the transcript callback if and only if the result is final or its text differs
\* from the last forwarded text; any other result leaves the callback uncalled.
C1_ForwardIffFinalOrChanged ==
    [][(Len(events') = Len(events) + 1
          /\ LastEvent'.kind = "result" /\ LastEvent'.transcript # "")
        => IF LastEvent'.is_final \/ LastEvent'.transcript # last_transcript
           THEN cb_calls' = Append(cb_calls, LastEvent'.transcript)
           ELSE cb_calls' = cb_calls]_vars

\* a non-final repeat was dropped and a final repeat of the same text forwarded
C1_Witness ==
    /\ Len(events) = 3
    /\ \A i \in 1..3 : events[i].kind = "result" /\ events[i].transcript = "a"
    /\ ~events[1].is_final /\ ~events[2].is_final /\ events[3].is_final
    /\ cb_calls = <<"a", "a">>

\* the responses so far are results that all carry the same non-empty text
SameTextRun ==
    /\ Len(events) >= 1
    /\ events[1].transcript # ""
    /\ \A i \in 1..Len(events) :
          events[i].kind = "result" /\ events[i].transcript = events[1].transcript

\* the repeats after the first that are marked final
FinalRepeats ==
    Cardinality({i \in 2..Len(events) : events[i].is_final})

\* C2: with TranslationSystem.handle_transcript fed by DeepgramClient, a run of
\* results with one identical text triggers the dispatcher once for the non-final
\* repeats (the first) and once more for each repeat marked final.
C2_RepeatsDispatchOnce ==
    (on_transcript = "ts" /\ SameTextRun) => ts_dispatches = 1 + FinalRepeats

\* C3: with TranslationSystem.handle_transcript as the on_transcript callback,
\* every transcript the dedup gate accepts starts exactly one pipeline task per
\* configured language.
C3_OneTaskPerLanguage ==
    on_transcript = "ts" => Len(tasks) = Len(LANGUAGES) * Len(cb_calls)

\* both translators are configured
BothConfigured ==
    {"kr_translator", "vn_translator"} \subseteq agent_session

\* the part of translator k in task t failed: achat raised, or the output
\* callback raised on the translation
PartFailed(t, k) ==
    \/ t.achat[k].kind = "raise"
    \/ /\ t.achat[k].kind = "content"
       /\ Strip(t.achat[k].content) # <<>>
       /\ t.out[k].kind # "translation"

\* C4: when the pipeline of one language fails at any stage, the pipeline of the
\* other configured language still runs: a translate_text task never ends with
\* one language failed and the other language's translator never called.
C4_Isolation ==
    \A i \in 1..Len(tt_tasks) : \A a, b \in 1..Len(Translators) :
        (a # b /\ BothConfigured /\ tt_tasks[i].pc \in {"done", "died"}
           /\ PartFailed(tt_tasks[i], a))
        => tt_tasks[i].achat[b].kind # "none"

\* C5: when the translation call of a language raises or returns empty text,
\* nothing is delivered to that language's output for that transcript.
C5_FailedTranslationDeliversNothing ==
    \A i \in 1..Len(tt_tasks) : \A k \in 1..Len(Translators) :
        (\/ tt_tasks[i].achat[k].kind = "raise"
         \/ /\ tt_tasks[i].achat[k].kind = "content"
            /\ Strip(tt_tasks[i].achat[k].content) = <<>>)
        => tt_tasks[i].out[k].kind = "none"

\* synthesis failed for task t: no key, an unsupported language, a network
\* error or a response other than 200
SynthFailed(t) ==
    \/ ~tts_api_key
    \/ t.lang \notin {"ko", "vi"}
    \/ t.http.kind = "client_error"
    \/ t.http.kind = "response" /\ t.http.status # 200

\* C6: when speech synthesis fails for a pipeline instance, publish_audio is never
\* called for it: nothing of that transcript and language reaches the room.
C6_NoPublishAfterFailedSynthesis ==
    \A i \in 1..Len(tasks) :
        SynthFailed(tasks[i]) =>
            /\ tasks[i].published = <<>>
            /\ tasks[i].pc \in {"created", "done"}
            /\ tasks[i].outcome \in {"none", "error"}

\* one task ended on a 500 response with nothing published, while the task of the
\* other language of the same transcript published its audio
C6_Witness ==
    \E i, j \in 1..Len(tasks) :
        /\ tasks[i].dispatch = tasks[j].dispatch
        /\ tasks[i].pc = "done" /\ tasks[i].http.kind = "response"
        /\ tasks[i].http.status = 500
        /\ tasks[i].outcome = "error" /\ tasks[i].published = <<>>
        /\ tasks[j].pc = "done" /\ tasks[j].published # <<>>

\* C7: when publishing into the room fails (publish_audio returns success False),
\* translate_and_speak takes its failure branch and does not log the translation
\* as published.
C7_FailedPublishIsFailure ==
    \A i \in 1..Len(tasks) :
        (tasks[i].pc = "done" /\ tasks[i].published # <<>> /\ ~tasks[i].result.success)
        => tasks[i].outcome = "publish_failed"

\* the rooms named n that are connected
LiveRooms(n) ==
    {r \in 1..Len(rooms) : rooms[r].name = n /\ rooms[r].state = "connected"}

\* C8: for every room name at most one connected connection obtained through
\* get_room exists at any time, also when two tasks call get_room concurrently.
C8_OneLiveConnectionPerRoom ==
    \A n \in RoomNames : Cardinality(LiveRooms(n)) <= 1

\* C9: the stages of one pipeline instance gate each other: publish is called
\* only after synthesis returned audio, and a stage that fails or returns nothing
\* keeps every later stage from running.
C9_StagesGate ==
    \A i \in 1..Len(tasks) :
        tasks[i].published # <<>> =>
            /\ tasks[i].http.kind = "response"
            /\ tasks[i].http.status = 200
            /\ tasks[i].http.body # <<>>

\* C10: once stop_stream has completed, no pipeline task is still outstanding
\* (suspended at a translator call) and no task delivers a translation afterwards.
C10_NoTaskOutlivesStop ==
    /\ stopped => \A i \in 1..Len(tt_tasks) : tt_tasks[i].pc # "achat"
    /\ ~late_output

TaskSucc(t) ==
    IF t.pc = "created" THEN {Advance(t, 0)}
    ELSE IF t.pc = "achat"
    THEN {AchatStep(t, c[1], c[2], c[3]) :
            c \in {d \in AchatOutcomes \X BOOLEAN \X BOOLEAN :
                      CallbackRaises(d[1], d[2], d[3])}}
    ELSE {}

\* the tasks translate_text can be in after any number of steps from t
RECURSIVE TaskReach(_)
TaskReach(t) ==
    {t} \cup UNION {TaskReach(u) : u \in TaskSucc(t)}

\* the outputs of a task were delivered in this order of languages
DeliveredInOrder(t, first, second) ==
    t.order = <<first, second>>

\* C12: for one accepted transcript with both translators configured, the
\* execution that delivers the Korean output before the Vietnamese output and the
\* execution that delivers the Vietnamese output before the Korean output are
\* both possible continuations of its translate_text task.
C12_EitherOrderReachable ==
    \A i \in 1..Len(tt_tasks) :
        (BothConfigured /\ tt_tasks[i].pc = "created")
        => /\ \E t \in TaskReach(tt_tasks[i]) : DeliveredInOrder(t, 1, 2)
           /\ \E t \in TaskReach(tt_tasks[i]) : DeliveredInOrder(t, 2, 1)

\* translate_text delivers in the order of its code: a Vietnamese output comes
\* only after the Korean part has ended
C12_KoreanPartFirst ==
    \A i \in 1..Len(tt_tasks) :
        (BothConfigured /\ tt_tasks[i].out[2].kind # "none")
        => /\ tt_tasks[i].achat[1].kind # "none"
           /\ tt_tasks[i].order \in {<<2>>, <<1, 2>>}


\* the publish_audio call the step started
NewPublish == publishes[Len(publishes)]

\* C13: when the cached broadcast of a room has reported a terminal disconnect,
\* the next publish_audio to that room does not reuse it: the stale entry is
\* replaced and the publish goes through a newly created broadcast.
C13_StaleBroadcastNotReused ==
    [][(Len(publishes') = Len(publishes) + 1
          /\ active_broadcasts[NewPublish'.room] # 0
          /\ broadcasts[active_broadcasts[NewPublish'.room]].lost)
        => /\ NewPublish'.broadcast # active_broadcasts[NewPublish'.room]
           /\ NewPublish'.broadcast > Len(broadcasts)
           /\ active_broadcasts'[NewPublish'.room] = NewPublish'.broadcast]_vars

\* call p of publish_audio returns in this step with success False
FailedReturn(p) ==
    /\ publishes[p].pc = "publishing"
    /\ publishes'[p].pc = "done"
    /\ ~publishes'[p].success

\* C14 as stated: when publish_audio returns from a failed publish,
\* active_rooms and active_broadcasts hold the same entries, with the same
\* objects, as before the call.
C14_FailedPublishChangesNothing ==
    [][\A p \in 1..Len(publishes) :
          FailedReturn(p)
          => /\ active_rooms' = publishes[p].rooms_before
             /\ active_broadcasts' = publishes[p].broadcasts_before]_vars

\* C14 as amended: a failed publish evicts nothing: from broadcast.publish
\* raising to the return of publish_audio neither cache changes and no broadcast
\* object changes, so the broadcast get_broadcast stored for the call stays.
C14_FailedPublishEvictsNothing ==
    [][\A p \in 1..Len(publishes) :
          FailedReturn(p)
          => /\ active_rooms' = active_rooms
             /\ active_broadcasts' = active_broadcasts
             /\ broadcasts' = broadcasts]_vars

\* a publish to a room with no cached broadcast failed, and the broadcast the
\* call created is cached
C14_Witness ==
    \E p \in 1..Len(publishes) :
        /\ publishes[p].pc = "done"
        /\ ~publishes[p].success
        /\ publishes[p].broadcasts_before[publishes[p].room] = 0
        /\ active_broadcasts[publishes[p].room] = publishes[p].broadcast

\* C15: after close_all has returned, no connection that existed when it was
\* called is open or cached: every room is disconnected and removed from
\* active_rooms, every broadcast is removed from active_broadcasts.
C15_ShutdownClosesEverything ==
    closer.pc = "done"
    => /\ \A r \in 1..closer.rooms_then : rooms[r].state # "connected"
       /\ \A n \in RoomNames :
             /\ active_rooms[n] \notin 1..closer.rooms_then
             /\ active_broadcasts[n] \notin 1..closer.broadcasts_then


\* C16: when a setting the entry point reads is missing at startup, the process
\* refuses to start: it is not started, no transcript source runs and no
\* pipeline task exists.
C16_RefusesWhenMisconfigured ==
    ~(Reads(entry) \subseteq environ)
    => /\ launch # "started"
       /\ ~is_running
       /\ stream_pc = "idle"
       /\ cb_calls = <<>>
       /\ tt_tasks = <<>>
       /\ tasks = <<>>

\* the step is an on_transcript call that raised
CallbackRaised == cb_errors' = cb_errors + 1

\* C17: an exception of the transcript callback never reaches the transcript
\* source: after the call the source is running as before, connected or
\* simulating, and goes on to the next transcript.
C17_CallbackErrorContained ==
    [][CallbackRaised
        => /\ is_running' = is_running
           /\ stream_pc' = stream_pc
           /\ ws' = ws]_vars


\* what the recogniser sent is no result with text: an error message, invalid
\* JSON, a result with an empty transcript, or recv raised
RecognitionError(resp) ==
    resp.kind # "result" \/ resp.transcript = ""

\* C18: a recognition error forwards nothing to the callback and does not stop
\* the listener: the gate's state and the connection are as before, so the loop
\* takes the next response.
C18_RecognitionErrorSkipped ==
    [][(Len(events') = Len(events) + 1 /\ RecognitionError(LastEvent'))
        => /\ cb_calls' = cb_calls
           /\ last_transcript' = last_transcript
           /\ is_running' = is_running
           /\ stream_pc' = stream_pc
           /\ ws' = ws]_vars

\* after an error message, a failed recv and an empty result, a valid result was
\* processed and forwarded
C18_Witness ==
    /\ Len(events) = 4
    /\ events[1].kind = "error"
    /\ events[2].kind = "recv_error"
    /\ events[3].kind = "result" /\ events[3].transcript = ""
    /\ events[4].kind = "result" /\ events[4].transcript = "a" /\ ~events[4].is_final
    /\ cb_calls = <<"a">>

\* the text of the last result the gate forwarded to the callback, "" when
\* it has forwarded none
LastForwarded ==
    IF cb_calls = <<>> THEN "" ELSE cb_calls[Len(cb_calls)]

\* C19: with the recogniser as the source, after any sequence of results
\* last_transcript is the text of the most recently forwarded result, and the
\* empty text before the first forward: every forward updates it and no dropped
\* result changes it.
C19_LastTranscriptIsLastForwarded ==
    ~simulation_mode => last_transcript = LastForwarded

\* a text was forwarded, its non-final repeat was dropped, and another text was
\* forwarded after it
C19_Witness ==
    /\ ~simulation_mode
    /\ Len(events) = 3
    /\ \A i \in 1..3 : events[i].kind = "result" /\ ~events[i].is_final
    /\ events[1].transcript = "a" /\ events[2].transcript = "a"
    /\ events[3].transcript = "b"
    /\ cb_calls = <<"a", "b">>
    /\ last_transcript = "b"


\* the tasks handle_transcript created for its d-th accepted transcript
TasksOf(d) ==
    {i \in 1..Len(tasks) : tasks[i].dispatch = d}

\* every stage of task t succeeded: synthesis answered 200 and the publish
\* returned success
StagesSucceeded(t) ==
    /\ t.pc = "done"
    /\ t.http.kind = "response" /\ t.http.status = 200
    /\ t.result.success

\* the publish_audio calls of task t that went to room r
PublishesInto(t, r) ==
    IF t.room = r THEN Len(t.published) ELSE 0

\* C20: for one accepted transcript whose stages all succeeded with the two
\* configured languages, exactly two publish_audio calls were made: one into
\* room_kr by the ko task and one into room_vn by the vi task, each with the
\* audio synthesis returned to that task, and none into another room.
C20_OnePublishPerRoom ==
    \A d \in 1..ts_dispatches :
        (\A i \in TasksOf(d) : StagesSucceeded(tasks[i]))
        => /\ Cardinality(TasksOf(d)) = 2
           /\ \A i \in TasksOf(d) :
                 /\ tasks[i].published = <<tasks[i].http.body>>
                 /\ tasks[i].room \in {"room_kr", "room_vn"}
                 /\ tasks[i].lang = "ko" <=> tasks[i].room = "room_kr"
                 /\ tasks[i].lang = "vi" <=> tasks[i].room = "room_vn"
           /\ \A r \in {"room_kr", "room_vn"} :
                 \E i \in TasksOf(d) :
                    /\ PublishesInto(tasks[i], r) = 1
                    /\ \A j \in TasksOf(d) \ {i} : PublishesInto(tasks[j], r) = 0

\* both tasks of one transcript synthesized audio and published it with success
C20_Witness ==
    /\ ts_dispatches = 1
    /\ Len(tasks) = 2
    /\ \A i \in 1..2 :
          /\ StagesSucceeded(tasks[i])
          /\ tasks[i].published = <<<<1, 2>>>>


\* a pipeline task of an earlier dispatch of this text has not ended
InFlightFor(text) ==
    \E i \in 1..Len(tasks) : tasks[i].text = text /\ tasks[i].pc # "done"

\* C21: when handle_transcript is called with a text while a pipeline task it
\* dispatched earlier for the same text is still in flight, the call starts its
\* own task for every language: it is not suppressed because of the first.
C21_RepeatInFlightDispatched ==
    [][(Len(ts_calls') = Len(ts_calls) + 1
          /\ InFlightFor(ts_calls'[Len(ts_calls')]))
        => /\ Len(tasks') = Len(tasks) + Len(LANGUAGES)
           /\ ts_dispatches' = ts_dispatches + 1]_vars


\* C22: the bytes handed to broadcast.publish for a pipeline instance are the
\* bytes text_to_speech returned to it, the same in length and in content, and
\* those are the body of the synthesis response.
C22_PublishedIsSynthesized ==
    \A i \in 1..Len(tasks) :
        tasks[i].published # <<>>
        => /\ Len(tasks[i].published) = 1
           /\ Len(tasks[i].published[1]) = Len(tasks[i].audio)
           /\ tasks[i].published[1] = tasks[i].audio
           /\ tasks[i].audio = tasks[i].http.body

\* a task is waiting for broadcast.publish with the two bytes synthesis returned
C22_Witness ==
    \E i \in 1..Len(tasks) :
        /\ tasks[i].pc = "publishing"
        /\ tasks[i].audio = <<1, 2>>
        /\ tasks[i].published = <<<<1, 2>>>>


\* C23: every stage is attempted at most once per pipeline instance: a task of
\* translate_and_speak calls text_to_speech at most once and publish_audio at
\* most once, it calls publish_audio only after its one synthesis succeeded,
\* and a task that failed stays ended; a translate_text task calls achat at most
\* once per translator.
C23_StagesAttemptedOnce ==
    /\ \A i \in 1..Len(tasks) :
            /\ tasks[i].attempts.tts <= 1
            /\ tasks[i].attempts.publish <= 1
            /\ Len(tasks[i].published) <= tasks[i].attempts.publish
            /\ tasks[i].attempts.publish <= tasks[i].attempts.tts
            /\ tasks[i].outcome = "error"
               => tasks[i].pc = "done" /\ tasks[i].attempts.publish = 0
    /\ \A i \in 1..Len(tt_tasks) :
            \A k \in 1..Len(Translators) : tt_tasks[i].calls[k] <= 1

\* a task whose one synthesis request failed has ended without a publish
C23_Witness ==
    \E i \in 1..Len(tasks) :
        /\ tasks[i].pc = "done"
        /\ tasks[i].outcome = "error"
        /\ tasks[i].http.kind # "none"
        /\ TtsRaises(tasks[i].http)
        /\ tasks[i].attempts = [tts |-> 1, publish |-> 0]


\* does the prompt start with the whole instruction and carry the text after it
InstructionFirst(sent, instruction, text) ==
    /\ Len(sent) >= Len(instruction) + Len(text)
    /\ SubSeq(sent, 1, Len(instruction)) = instruction
    /\ SubSeq(sent, Len(sent) - Len(text) + 1, Len(sent)) = text

StopReturnsNow ==
    \E p \in 1..Len(stop_calls') :
        /\ stop_calls'[p].pc = "returned"
        /\ p <= Len(stop_calls) => stop_calls[p].pc # "returned"

\* C25: when stop_stream returns, no connection of the client is open and no
\* audio stream of it is running, whatever state the client was in at the call.
C25_StopReleasesResources ==
    [][StopReturnsNow
       => /\ \A s \in 1..Len(sockets') : sockets'[s] # "open"
          /\ \A a \in 1..Len(streams') : streams'[a] # "started"]_vars

\* the listener tasks that are inside their loop
ActiveLoops ==
    {l \in 1..Len(listeners) : listeners[l].pc \in {"recv", "sleeping"}}

\* C26: at most one listener or simulation loop of the client is active at any
\* time, over any sequence of start_stream and stop_stream calls.
C26_OneLoopAtATime ==
    Cardinality(ActiveLoops) <= 1

\* C28: when start_stream fails, its except branch leaves is_running False, and
\* when the call raises, the connection and the audio stream it opened are
\* closed; a call raises only out of that branch.
C28_FailedStartCleansUp ==
    [][\A i \in 1..Len(start_calls') :
          /\ (start_calls'[i].failed /\ (i <= Len(start_calls) => ~start_calls[i].failed))
             => ~client'.is_running
          /\ start_calls'[i].pc = "raised"
             => /\ start_calls'[i].failed
                /\ start_calls'[i].sock # 0 => sockets'[start_calls'[i].sock] = "closed"
                /\ start_calls'[i].stream # 0
                   => streams'[start_calls'[i].stream] = "closed"]_vars


\* C27: whenever start() is in its keep-alive loop with is_running true, the
\* stream of its DeepgramClient is still running.
C27_KeepAliveMeansStreaming ==
    (system.pc = "keepalive" /\ system.is_running) => client.is_running

\* the stop_stream calls stop() made
StopStreamInvocations ==
    {p \in 1..Len(stop_calls) : stop_calls[p].by = "system"}

C30_OneBroadcastWhileCached ==
    [][\A name \in RoomNames :
          active_broadcasts[name] # 0
          => /\ \A b \in (Len(broadcasts) + 1)..Len(broadcasts') :
                    broadcasts'[b].name # name
             /\ \A p \in (Len(publishes) + 1)..Len(publishes') :
                    publishes'[p].room = name
                    => publishes'[p].broadcast = active_broadcasts[name]]_vars

\* two publish_audio calls for one room are under way at once on one broadcast
C30_Witness ==
    \E p, q \in 1..Len(publishes) :
        /\ p # q
        /\ publishes[p].pc = "publishing"
        /\ publishes[q].pc = "publishing"
        /\ publishes[p].room = publishes[q].room
        /\ publishes[p].broadcast = publishes[q].broadcast
        /\ Len(broadcasts) = 1


\* a close_room call returns in this step
CloseRoomReturnsNow ==
    Len(closer'.results) = Len(closer.results) + 1

\* C31: close_room returns True when disconnect() succeeded or the room was not
\* connected, and then neither the room nor its broadcast is cached; it returns
\* False when disconnect() raised, and then the room stays cached; and when
\* close_all has returned, close_room was called for every room that was cached
\* when it began.
C31_CloseRoomContract ==
    [][/\ CloseRoomReturnsNow
          => LET e == closer'.results[Len(closer'.results)] IN
             /\ e.result
                => /\ active_rooms'[e.name] = 0
                   /\ active_broadcasts'[e.name] = 0
             /\ ~e.result
                => /\ e.cached
                   /\ active_rooms'[e.name] = active_rooms[e.name]
                   /\ active_rooms'[e.name] # 0
       /\ closer'.pc = "done"
          => \A n \in closer'.listed :
                \E k \in 1..Len(closer'.results) : closer'.results[k].name = n]_vars

\* a shutdown_translation_service call returns in this step
ShutdownReturnsNow ==
    \E c \in {"lifespan", "main"} :
        service.calls[c] # "returned" /\ service'.calls[c] = "returned"

\* C32: when shutdown_translation_service returns, is_translation_running is
\* False and translation_sessions is empty, also when closing sessions failed
C32_ShutdownLeavesNothing ==
    [][ShutdownReturnsNow
       => /\ ~service'.is_translation_running
          /\ service'.translation_sessions = {}]_vars

\* C33: when main() has returned, every session it created has been closed, also
\* when a later create_session call failed after earlier ones had returned
C33_CreatedSessionsClosed ==
    service.worker_task = "exited" /\ service.exit = "returned"
        => service.created \subseteq service.closed

\* C34: once run_worker has exited, after a return of its entrypoint or after a
\* cancellation of the worker task, the heartbeat task has been cancelled and
\* last_heartbeat is not refreshed any more
C34_HeartbeatStopsWithWorker ==
    [][service.worker_task = "exited"
       => /\ service.heartbeat_task = "cancelled"
          /\ service'.last_heartbeat = service.last_heartbeat]_vars

\* C35: every answer of GET /status given while the web service is running
\* reports service_alive = true, however long the service has been up
C35_RunningMeansAlive ==
    \A h \in Handlers :
        Len(web.handlers[h].response) > 0
            => LET r == web.handlers[h].response[1] IN
               r.route = "status" /\ r.web_service_running => r.service_alive

\* a request to the agent service goes out in this step
ProbeStartsNow ==
    \E h \in Handlers : web.handlers[h].pc # "probing" /\ web'.handlers[h].pc = "probing"

\* C36: the agent service is asked at most once per 30-second window, also with
\* concurrent status requests: a request goes out only when the window has passed
\* since the last recorded check and since the last request that went out
C36_OneProbePerWindow ==
    [][ProbeStartsNow
       => /\ now - web.agent_status.last_checked >= CheckWindow
          /\ now - web.last_probe >= CheckWindow]_vars

\* C37: no two consecutive texts given to the translation model are equal, and
\* no empty or whitespace-only text is given to it, whatever transcripts are
\* written to the buffer between two rounds of process_transcription
C37_NoRepeatNoBlank ==
    /\ \A i \in 1..(Len(translation.sent) - 1) :
          translation.sent[i] # translation.sent[i + 1]
    /\ \A i \in 1..Len(translation.sent) : Strip(translation.sent[i]) # <<>>

====
